---------------------------- MODULE Spec2Model ----------------------------
(***************************************************************************)
(* A model of npmctl, the command-line client of Nginx Proxy Manager:      *)
(* the secret store (secrets_store.py), the credential resolver            *)
(* (config.py), the redaction engine (debug.py) and the HTTP request       *)
(* pipeline (client.py), with the commands that drive them.                *)
(*                                                                         *)
(* Encoding of Python values.                                              *)
(*   value             <<"null">> is None; <<"str", cs>> a str of the      *)
(*                     characters cs; <<"num", cs>> a number of the digits *)
(*                     cs; <<"bool", <<"T">>>> and <<"bool", <<"F">>>>;    *)
(*                     <<"dict", pairs>>, <<"list", items>> and            *)
(*                     <<"tuple", items>>                                  *)
(*   scalar            a value that is None, a str, a number or a bool     *)
(*   text              the content of a str held by the vault or a file:   *)
(*                     a sequence of lexemes (<<"{">>, <<":">>, <<",">>,   *)
(*                     <<"}">>, <<"key", k>> for the string of a member's  *)
(*                     name, scalars, <<"raw", s>> for anything else);     *)
(*                     <<>> is the empty string                            *)
(*   Optional[text]    <<>> is None (no entry, no file), <<t>> the text t  *)
(*   pairs             a sequence of <<key, value>>, the last pair of a    *)
(*                     key being its value                                 *)
(*   exception text    a sequence of phrases                               *)
(***************************************************************************)
EXTENDS Naturals, Sequences, FiniteSets

VARIABLES
    vault,          \* the platform vault: service name -> key -> Optional[text]
    vault0,         \* the vault as npmctl found it (history)
    keyringLoaded,  \* whether `import keyring` succeeded in this installation
    file1,          \* LEGACY_NPMCTL_CONFIG_PATH: Optional[text]
    file2,          \* LEGACY_CONFIG_PATH: Optional[text]
    op,             \* the last operation run
    inp,            \* its inputs
    out             \* what it returned or raised

vars == <<vault, vault0, keyringLoaded, file1, file2, op, inp, out>>
store == <<vault, vault0, keyringLoaded>>
files == <<file1, file2>>

---------------------------------------------------------------------------
(* Python values *)

None == <<"null">>
Str(s) == <<"str", s>>

\* bool(v) of a scalar
Truthy(v) == \/ (v[1] \in {"str", "dict", "list", "tuple"} /\ v[2] # <<>>)
             \/ (v[1] = "num" /\ v[2] # <<"0">>)
             \/ v = <<"bool", <<"T">>>>

\* Python's `a or b`
PyOr(a, b) == IF Truthy(a) THEN a ELSE b

\* bool(t) of an Optional[text]: None and "" are falsy
TruthyText(t) == t # <<>> /\ t[1] # <<>>

RECURSIVE DictGet(_, _)
\* d.get(k)
DictGet(d, k) ==
    IF d = <<>> THEN None
    ELSE IF d[Len(d)][1] = k THEN d[Len(d)][2]
    ELSE DictGet(SubSeq(d, 1, Len(d) - 1), k)

---------------------------------------------------------------------------
(* JSON text *)

IsScalarLex(l) == l[1] \in {"str", "null", "num"}

\* "{" (string ":" scalar ("," string ":" scalar)*)? "}"
WellFormedObject(t) ==
    /\ Len(t) >= 2
    /\ t[1] = <<"{">>
    /\ t[Len(t)] = <<"}">>
    /\ LET n == Len(t) - 2
       IN  \/ n = 0
           \/ /\ n % 4 = 3
              /\ \A i \in 1..n :
                    LET l == t[i + 1]
                    IN  CASE i % 4 = 1 -> l[1] = "key"
                          [] i % 4 = 2 -> l = <<":">>
                          [] i % 4 = 3 -> IsScalarLex(l)
                          [] OTHER     -> l = <<",">>

RECURSIVE MembersFrom(_, _)
\* the members of a well-formed object text from its i-th lexeme on
MembersFrom(t, i) ==
    IF i + 2 > Len(t) - 1 THEN <<>>
    ELSE <<<<t[i][2], t[i + 2]>>>> \o MembersFrom(t, i + 4)

ObjectMembers(t) == MembersFrom(t, 2)

\* json.loads: ok = FALSE is JSONDecodeError
json_loads(t) ==
    IF WellFormedObject(t)
    THEN [v |-> None, d |-> ObjectMembers(t), ok |-> TRUE, isdict |-> TRUE]
    ELSE IF Len(t) = 1 /\ IsScalarLex(t[1])
    THEN [v |-> t[1], d |-> <<>>, ok |-> TRUE, isdict |-> FALSE]
    ELSE [v |-> None, d |-> <<>>, ok |-> FALSE, isdict |-> FALSE]

RECURSIVE DumpMembers(_)
DumpMembers(d) ==
    IF d = <<>> THEN <<>>
    ELSE IF Len(d) = 1 THEN <<<<"key", d[1][1]>>, <<":">>, d[1][2]>>
    ELSE DumpMembers(SubSeq(d, 1, Len(d) - 1))
            \o <<<<",">>, <<"key", d[Len(d)][1]>>, <<":">>, d[Len(d)][2]>>

\* json.dumps of a dict of scalars
json_dumps(d) == <<<<"{">>>> \o DumpMembers(d) \o <<<<"}">>>>

---------------------------------------------------------------------------
(* secrets_store.py *)

SERVICE_NAME == "npmctl"
LEGACY_SERVICE_NAME == "npm-cli"
CF_TOKEN_KEY == "cloudflare_api_token"
LOGIN_INFO_KEY == "login_info"

Services == {SERVICE_NAME, LEGACY_SERVICE_NAME}
SecretNames == {CF_TOKEN_KEY, LOGIN_INFO_KEY}

\* The texts of the KeyringError a backend raises; OK is a call that returns.
OK == <<>>
NoBackendText == <<"No recommended backend was available", "Install a recommended 3rd party backend package">>
LockedText == <<"Failed to unlock the collection!">>
ItemNotFoundText == <<"Item", "Not Found">>
NoSuchPasswordText == <<"No such password!">>

\* What a backend may answer to get_password and set_password, and to
\* delete_password: it reports a missing entry as an error of its own wording,
\* and an entry that is there is never reported missing.
CallOutcomes == {OK, NoBackendText, LockedText}
DeleteOutcomes(v, service, name) ==
    IF v[service][name] = <<>>
    THEN {ItemNotFoundText, NoSuchPasswordText, NoBackendText, LockedText}
    ELSE CallOutcomes

\* str.lower() of a phrase
Lower(p) ==
    CASE p = "No recommended backend was available" -> "no recommended backend was available"
      [] p = "Not Found" -> "not found"
      [] p = "Item" -> "item"
      [] p = "Failed to unlock the collection!" -> "failed to unlock the collection!"
      [] p = "Install a recommended 3rd party backend package" -> "install a recommended 3rd party backend package"
      [] OTHER -> p

\* `phrase in str(exc).lower()`
InLowered(phrase, exc) == \E i \in 1..Len(exc) : Lower(exc[i]) = phrase

\* The message of an NPMError is a sequence of parts: <<"lit", phrase>> for
\* text of the program, or a value formatted into it.
Lit(p) == <<"lit", p>>
RECURSIVE Lits(_)
\* str(exc) as parts
Lits(exc) == IF exc = <<>> THEN <<>> ELSE <<Lit(Head(exc))>> \o Lits(Tail(exc))

UnavailableMessage ==
    <<Lit("Secure storage backend unavailable."), Lit("Install keyring and an OS keyring backend.")>>
HintPhrase == "Hint: install and run an OS keyring backend"

\* The result of a call: err is the message of the NPMError raised (<<>> if
\* none), val what it returned, vault the vault it leaves, calls the calls it
\* made to the backend, in order.
Returned(val, v, calls) == [vault |-> v, val |-> val, calls |-> calls, err |-> <<>>]
Raised(msg, v, calls) == [vault |-> v, val |-> <<>>, calls |-> calls, err |-> msg]

\* _keyring_backend_hint giving the hint whatever the text
_keyring_backend_hint_always(exc) == <<Lit(HintPhrase)>>

_keyring_backend_hint(exc) ==
    IF InLowered("no recommended backend was available", exc)
    THEN <<Lit(HintPhrase)>>
    ELSE <<>>

\* get_secret reading the legacy namespace before the current one
get_secret_legacy_first(v, loaded, secret_name, o1, o2) ==
    LET c1 == <<<<"get", LEGACY_SERVICE_NAME>>>>
        c2 == <<<<"get", LEGACY_SERVICE_NAME>>, <<"get", SERVICE_NAME>>>>
    IN  IF ~loaded THEN Raised(UnavailableMessage, v, <<>>)
        ELSE IF o1 # OK
        THEN Raised(<<Lit("Failed to read secret from keyring:")>> \o Lits(o1) \o _keyring_backend_hint(o1), v, c1)
        ELSE IF TruthyText(v[LEGACY_SERVICE_NAME][secret_name])
        THEN Returned(v[LEGACY_SERVICE_NAME][secret_name], v, c1)
        ELSE IF o2 # OK
        THEN Raised(<<Lit("Failed to read secret from keyring:")>> \o Lits(o2) \o _keyring_backend_hint(o2), v, c2)
        ELSE Returned(v[SERVICE_NAME][secret_name], v, c2)

\* get_secret returning the value of the current namespace whenever there is
\* one, the empty string included
get_secret_stored_value(v, loaded, secret_name, o1, o2) ==
    LET c1 == <<<<"get", SERVICE_NAME>>>>
        c2 == <<<<"get", SERVICE_NAME>>, <<"get", LEGACY_SERVICE_NAME>>>>
    IN  IF ~loaded THEN Raised(UnavailableMessage, v, <<>>)
        ELSE IF o1 # OK
        THEN Raised(<<Lit("Failed to read secret from keyring:")>> \o Lits(o1) \o _keyring_backend_hint(o1), v, c1)
        ELSE IF v[SERVICE_NAME][secret_name] # <<>>
        THEN Returned(v[SERVICE_NAME][secret_name], v, c1)
        ELSE IF o2 # OK
        THEN Raised(<<Lit("Failed to read secret from keyring:")>> \o Lits(o2) \o _keyring_backend_hint(o2), v, c2)
        ELSE Returned(v[LEGACY_SERVICE_NAME][secret_name], v, c2)

\* o1, o2: the backend's answers to the first and the second get_password
get_secret(v, loaded, secret_name, o1, o2) ==
    LET c1 == <<<<"get", SERVICE_NAME>>>>
        c2 == <<<<"get", SERVICE_NAME>>, <<"get", LEGACY_SERVICE_NAME>>>>
    IN  IF ~loaded THEN Raised(UnavailableMessage, v, <<>>)
        ELSE IF o1 # OK
        THEN Raised(<<Lit("Failed to read secret from keyring:")>> \o Lits(o1) \o _keyring_backend_hint(o1), v, c1)
        ELSE IF TruthyText(v[SERVICE_NAME][secret_name])
        THEN Returned(v[SERVICE_NAME][secret_name], v, c1)
        ELSE IF o2 # OK
        THEN Raised(<<Lit("Failed to read secret from keyring:")>> \o Lits(o2) \o _keyring_backend_hint(o2), v, c2)
        ELSE Returned(v[LEGACY_SERVICE_NAME][secret_name], v, c2)

\* set_secret writing the legacy namespace
set_secret_legacy(v, loaded, secret_name, value, o) ==
    LET c1 == <<<<"set", LEGACY_SERVICE_NAME>>>>
    IN  IF ~loaded THEN Raised(UnavailableMessage, v, <<>>)
        ELSE IF o # OK
        THEN Raised(<<Lit("Failed to store secret in keyring:")>> \o Lits(o) \o _keyring_backend_hint(o), v, c1)
        ELSE Returned(<<>>, [v EXCEPT ![LEGACY_SERVICE_NAME][secret_name] = <<value>>], c1)

set_secret(v, loaded, secret_name, value, o) ==
    LET c1 == <<<<"set", SERVICE_NAME>>>>
    IN  IF ~loaded THEN Raised(UnavailableMessage, v, <<>>)
        ELSE IF o # OK
        THEN Raised(<<Lit("Failed to store secret in keyring:")>> \o Lits(o) \o _keyring_backend_hint(o), v, c1)
        ELSE Returned(<<>>, [v EXCEPT ![SERVICE_NAME][secret_name] = <<value>>], c1)

_delete_if_exists(v, service_name, secret_name, o) ==
    LET c1 == <<<<"delete", service_name>>>>
    IN  IF o = OK
        THEN Returned(<<>>, [v EXCEPT ![service_name][secret_name] = <<>>], c1)
        ELSE IF InLowered("not found", o)
        THEN Returned(<<>>, v, c1)
        ELSE Raised(<<Lit("Failed to delete secret from keyring:")>> \o Lits(o) \o _keyring_backend_hint(o), v, c1)

\* delete_secret leaving the legacy namespace alone
delete_secret_current_only(v, loaded, secret_name, o1, o2) ==
    IF ~loaded THEN Raised(UnavailableMessage, v, <<>>)
    ELSE _delete_if_exists(v, SERVICE_NAME, secret_name, o1)

delete_secret(v, loaded, secret_name, o1, o2) ==
    IF ~loaded THEN Raised(UnavailableMessage, v, <<>>)
    ELSE LET first == _delete_if_exists(v, SERVICE_NAME, secret_name, o1)
             second == _delete_if_exists(first.vault, LEGACY_SERVICE_NAME, secret_name, o2)
         IN  IF first.err # <<>> THEN first
             ELSE [second EXCEPT !.calls = first.calls \o second.calls]

\* the dict set_login_info serialises, in its key order
LoginPayload(base_url, token, expires, identity) ==
    <<<<"base_url", base_url>>, <<"token", token>>,
      <<"expires", expires>>, <<"identity", identity>>>>

\* result: err, and d the dict returned
get_login_info(v, loaded, o1, o2) ==
    LET raw == get_secret(v, loaded, LOGIN_INFO_KEY, o1, o2)
    IN  IF raw.err # <<>> THEN [d |-> <<>>, err |-> raw.err]
        ELSE IF ~TruthyText(raw.val) THEN [d |-> <<>>, err |-> <<>>]
        ELSE LET parsed == json_loads(raw.val[1])
             IN  IF ~parsed.ok THEN [d |-> <<>>, err |-> <<>>]
                 ELSE IF parsed.isdict THEN [d |-> parsed.d, err |-> <<>>]
                 ELSE [d |-> <<>>, err |-> <<>>]

\* set_login_info storing the token alone
set_login_info_token_only(v, loaded, base_url, token, expires, identity, o) ==
    set_secret(v, loaded, LOGIN_INFO_KEY, json_dumps(<<<<"token", token>>>>), o)

set_login_info(v, loaded, base_url, token, expires, identity, o) ==
    set_secret(v, loaded, LOGIN_INFO_KEY,
               json_dumps(LoginPayload(base_url, token, expires, identity)), o)

clear_login_info(v, loaded, o1, o2) == delete_secret(v, loaded, LOGIN_INFO_KEY, o1, o2)

MissingCloudflareToken ==
    <<Lit("Missing Cloudflare API token."),
      Lit("Use --cloudflare-api-token, set CLOUDFLARE_API_TOKEN, or run npmctl cf-token-set.")>>

\* the str whose content is the text t of a secret that is no JSON
StrOfText(t) == IF t = <<>> THEN Str(<<>>) ELSE Str(t[1][2])

\* result: err, the token returned, and the calls made to the backend
resolve_cloudflare_token(cli_or_env_token, v, loaded, o1, o2) ==
    IF Truthy(cli_or_env_token)
    THEN [calls |-> <<>>, err |-> <<>>, token |-> cli_or_env_token]
    ELSE LET r == get_secret(v, loaded, CF_TOKEN_KEY, o1, o2)
         IN  IF r.err # <<>> THEN [calls |-> r.calls, err |-> r.err, token |-> None]
             ELSE IF TruthyText(r.val)
             THEN [calls |-> r.calls, err |-> <<>>, token |-> StrOfText(r.val[1])]
             ELSE [calls |-> r.calls, err |-> MissingCloudflareToken, token |-> None]

---------------------------------------------------------------------------
(* config.py *)

\* _load_keyring_login_info answering a failed lookup with the record the
\* vault holds after all
_load_keyring_login_info_despite_failure(v, loaded, o1, o2) ==
    LET info == get_login_info(v, loaded, o1, o2)
    IN  IF info.err # <<>> THEN get_login_info(v, TRUE, OK, OK).d ELSE info.d

_load_keyring_login_info(v, loaded, o1, o2) ==
    LET info == get_login_info(v, loaded, o1, o2)
    IN  IF info.err # <<>> THEN <<>> ELSE info.d

\* f: the file at the path, <<>> when it does not exist, else <<text>>: the
\* text read_text returns (a file that cannot be read as UTF-8 text, for which
\* read_text itself raises, is not among the files modelled)
_load_json_file(f) ==
    IF f = <<>> THEN <<>>
    ELSE LET parsed == json_loads(f[1])
         IN  IF ~parsed.ok THEN <<>>
             ELSE IF parsed.isdict THEN parsed.d
             ELSE <<>>

\* _load_legacy_login_info taking from the second file the fields that the
\* first one lacks
_load_legacy_login_info_merged(f1, f2) ==
    LET d1 == _load_json_file(f1)
        d2 == _load_json_file(f2)
        absent(pair) == \A i \in 1..Len(d1) : d1[i][1] # pair[1]
    IN  d1 \o SelectSeq(d2, absent)

\* f1 is LEGACY_NPMCTL_CONFIG_PATH, f2 is LEGACY_CONFIG_PATH
_load_legacy_login_info(f1, f2) ==
    IF _load_json_file(f1) # <<>> THEN _load_json_file(f1)
    ELSE IF _load_json_file(f2) # <<>> THEN _load_json_file(f2)
    ELSE <<>>

MissingBaseUrl == <<Lit("Missing NPM base URL."), Lit("Use --base-url or set NPM_BASE_URL.")>>
MissingToken == <<Lit("Missing API token."), Lit("Run npmctl login or set NPM_TOKEN.")>>

\* resolve_base_url_and_token with the environment consulted before the arguments
resolve_env_first(base_url, token, require_token, environ, v, loaded, o1, o2, f1, f2) ==
    LET keyring_login == _load_keyring_login_info(v, loaded, o1, o2)
        legacy_login == _load_legacy_login_info(f1, f2)
        resolved_base_url ==
            PyOr(environ.NPM_BASE_URL,
                 PyOr(base_url,
                      PyOr(DictGet(keyring_login, "base_url"),
                           DictGet(legacy_login, "base_url"))))
        resolved_token ==
            PyOr(environ.NPM_TOKEN,
                 PyOr(token,
                      PyOr(DictGet(keyring_login, "token"),
                           DictGet(legacy_login, "token"))))
    IN  IF ~Truthy(resolved_base_url)
        THEN [err |-> MissingBaseUrl, base_url |-> None, token |-> None]
        ELSE IF require_token /\ ~Truthy(resolved_token)
        THEN [err |-> MissingToken, base_url |-> None, token |-> None]
        ELSE [err |-> <<>>, base_url |-> resolved_base_url, token |-> resolved_token]

\* resolve_base_url_and_token without the check of the token
resolve_token_unchecked(base_url, token, require_token, environ, v, loaded, o1, o2, f1, f2) ==
    LET keyring_login == _load_keyring_login_info(v, loaded, o1, o2)
        legacy_login == _load_legacy_login_info(f1, f2)
        resolved_base_url ==
            PyOr(base_url,
                 PyOr(environ.NPM_BASE_URL,
                      PyOr(DictGet(keyring_login, "base_url"),
                           DictGet(legacy_login, "base_url"))))
        resolved_token ==
            PyOr(token,
                 PyOr(environ.NPM_TOKEN,
                      PyOr(DictGet(keyring_login, "token"),
                           DictGet(legacy_login, "token"))))
    IN  IF ~Truthy(resolved_base_url)
        THEN [err |-> MissingBaseUrl, base_url |-> None, token |-> None]
        ELSE [err |-> <<>>, base_url |-> resolved_base_url, token |-> resolved_token]

\* environ: os.environ as [NPM_BASE_URL, NPM_TOKEN], None for a variable not set
resolve_base_url_and_token(base_url, token, require_token, environ, v, loaded, o1, o2, f1, f2) ==
    LET keyring_login == _load_keyring_login_info(v, loaded, o1, o2)
        legacy_login == _load_legacy_login_info(f1, f2)
        resolved_base_url ==
            PyOr(base_url,
                 PyOr(environ.NPM_BASE_URL,
                      PyOr(DictGet(keyring_login, "base_url"),
                           DictGet(legacy_login, "base_url"))))
        resolved_token ==
            PyOr(token,
                 PyOr(environ.NPM_TOKEN,
                      PyOr(DictGet(keyring_login, "token"),
                           DictGet(legacy_login, "token"))))
    IN  IF ~Truthy(resolved_base_url)
        THEN [err |-> MissingBaseUrl, base_url |-> None, token |-> None]
        ELSE IF require_token /\ ~Truthy(resolved_token)
        THEN [err |-> MissingToken, base_url |-> None, token |-> None]
        ELSE [err |-> <<>>, base_url |-> resolved_base_url, token |-> resolved_token]

---------------------------------------------------------------------------
(* debug.py *)

SENSITIVE_KEYS ==
    {"authorization", "token", "secret", "password",
     "dns_provider_credentials", "cloudflare_api_token"}

\* the characters of a key name
Chars(k) ==
      CASE k = "authorization" -> <<"a", "u", "t", "h", "o", "r", "i", "z", "a", "t", "i", "o", "n">>
        [] k = "token" -> <<"t", "o", "k", "e", "n">>
        [] k = "secret" -> <<"s", "e", "c", "r", "e", "t">>
        [] k = "password" -> <<"p", "a", "s", "s", "w", "o", "r", "d">>
        [] k = "dns_provider_credentials" -> <<"d", "n", "s", "_", "p", "r", "o", "v", "i", "d", "e", "r", "_", "c", "r", "e", "d", "e", "n", "t", "i", "a", "l", "s">>
        [] k = "cloudflare_api_token" -> <<"c", "l", "o", "u", "d", "f", "l", "a", "r", "e", "_", "a", "p", "i", "_", "t", "o", "k", "e", "n">>
        [] k = "payload" -> <<"p", "a", "y", "l", "o", "a", "d">>
        [] k = "json_body" -> <<"j", "s", "o", "n", "_", "b", "o", "d", "y">>
        [] k = "error" -> <<"e", "r", "r", "o", "r">>
        [] k = "message" -> <<"m", "e", "s", "s", "a", "g", "e">>
        [] k = "expires" -> <<"e", "x", "p", "i", "r", "e", "s">>
        [] k = "requires_2fa" -> <<"r", "e", "q", "u", "i", "r", "e", "s", "_", "2", "f", "a">>
        [] k = "id" -> <<"i", "d">>
        [] k = "identity" -> <<"i", "d", "e", "n", "t", "i", "t", "y">>
        [] k = "scope" -> <<"s", "c", "o", "p", "e">>
        [] k = "meta" -> <<"m", "e", "t", "a">>
        [] k = "provider" -> <<"p", "r", "o", "v", "i", "d", "e", "r">>
        [] k = "nice_name" -> <<"n", "i", "c", "e", "_", "n", "a", "m", "e">>
        [] k = "domain_names" -> <<"d", "o", "m", "a", "i", "n", "_", "n", "a", "m", "e", "s">>
        [] k = "certificate_id" -> <<"c", "e", "r", "t", "i", "f", "i", "c", "a", "t", "e", "_", "i", "d">>
        [] k = "code" -> <<"c", "o", "d", "e">>
        [] k = "name" -> <<"n", "a", "m", "e">>
        [] k = "Authorization" -> <<"A", "u", "t", "h", "o", "r", "i", "z", "a", "t", "i", "o", "n">>
        [] k = "API_TOKEN" -> <<"A", "P", "I", "_", "T", "O", "K", "E", "N">>
        [] k = "Password" -> <<"P", "a", "s", "s", "w", "o", "r", "d">>
        [] k = "client_Secret" -> <<"c", "l", "i", "e", "n", "t", "_", "S", "e", "c", "r", "e", "t">>
        [] k = "tokens" -> <<"t", "o", "k", "e", "n", "s">>
        [] k = "toke" -> <<"t", "o", "k", "e">>
        [] k = "pass_word" -> <<"p", "a", "s", "s", "_", "w", "o", "r", "d">>
        [] k = "dns_challenge" -> <<"d", "n", "s", "_", "c", "h", "a", "l", "l", "e", "n", "g", "e">>
        [] k = "dns_provider" -> <<"d", "n", "s", "_", "p", "r", "o", "v", "i", "d", "e", "r">>
        [] k = "propagation_seconds" -> <<"p", "r", "o", "p", "a", "g", "a", "t", "i", "o", "n", "_", "s", "e", "c", "o", "n", "d", "s">>
        [] k = "key_type" -> <<"k", "e", "y", "_", "t", "y", "p", "e">>
        [] k = "forward_scheme" -> <<"f", "o", "r", "w", "a", "r", "d", "_", "s", "c", "h", "e", "m", "e">>
        [] k = "forward_host" -> <<"f", "o", "r", "w", "a", "r", "d", "_", "h", "o", "s", "t">>
        [] k = "forward_port" -> <<"f", "o", "r", "w", "a", "r", "d", "_", "p", "o", "r", "t">>
        [] k = "ssl_forced" -> <<"s", "s", "l", "_", "f", "o", "r", "c", "e", "d">>
        [] k = "http2_support" -> <<"h", "t", "t", "p", "2", "_", "s", "u", "p", "p", "o", "r", "t">>
        [] k = "hsts_enabled" -> <<"h", "s", "t", "s", "_", "e", "n", "a", "b", "l", "e", "d">>
        [] k = "hsts_subdomains" -> <<"h", "s", "t", "s", "_", "s", "u", "b", "d", "o", "m", "a", "i", "n", "s">>
        [] k = "block_exploits" -> <<"b", "l", "o", "c", "k", "_", "e", "x", "p", "l", "o", "i", "t", "s">>
        [] k = "allow_websocket_upgrade" -> <<"a", "l", "l", "o", "w", "_", "w", "e", "b", "s", "o", "c", "k", "e", "t", "_", "u", "p", "g", "r", "a", "d", "e">>
        [] k = "caching_enabled" -> <<"c", "a", "c", "h", "i", "n", "g", "_", "e", "n", "a", "b", "l", "e", "d">>
        [] k = "enabled" -> <<"e", "n", "a", "b", "l", "e", "d">>
        [] k = "access_list_id" -> <<"a", "c", "c", "e", "s", "s", "_", "l", "i", "s", "t", "_", "i", "d">>
        [] k = "advanced_config" -> <<"a", "d", "v", "a", "n", "c", "e", "d", "_", "c", "o", "n", "f", "i", "g">>
        [] k = "locations" -> <<"l", "o", "c", "a", "t", "i", "o", "n", "s">>
        [] k = "base_url" -> <<"b", "a", "s", "e", "_", "u", "r", "l">>
        [] k = "" -> <<>>

UpperCase == <<"A", "B", "C", "D", "E", "F", "G", "H", "I", "J", "K", "L", "M",
               "N", "O", "P", "Q", "R", "S", "T", "U", "V", "W", "X", "Y", "Z">>
LowerCase == <<"a", "b", "c", "d", "e", "f", "g", "h", "i", "j", "k", "l", "m",
               "n", "o", "p", "q", "r", "s", "t", "u", "v", "w", "x", "y", "z">>

\* str.lower(), character by character
LowerChar(c) ==
    IF \E i \in 1..Len(UpperCase) : UpperCase[i] = c
    THEN LowerCase[CHOOSE i \in 1..Len(UpperCase) : UpperCase[i] = c]
    ELSE c
RECURSIVE LowerChars(_)
LowerChars(cs) ==
    IF cs = <<>> THEN <<>> ELSE <<LowerChar(Head(cs))>> \o LowerChars(Tail(cs))

\* `sub in cs` of two strings
IsSubstring(sub, cs) ==
    /\ Len(sub) <= Len(cs)
    /\ \E i \in 0..(Len(cs) - Len(sub)) : SubSeq(cs, i + 1, i + Len(sub)) = sub

MASK == <<"*", "*", "*">>
ELLIPSIS == <<".", ".", ".">>

\* mask_secret with the preview of the first and last 4 characters given to
\* every non-empty string, whatever its length
mask_secret_always_preview(value) ==
    IF value = <<>> THEN MASK
    ELSE SubSeq(value, 1, IF Len(value) < 4 THEN Len(value) ELSE 4) \o ELLIPSIS
            \o SubSeq(value, IF Len(value) < 4 THEN 1 ELSE Len(value) - 3, Len(value))

\* value: the characters of a str
mask_secret(value) ==
    IF value = <<>> \/ Len(value) <= 8 THEN MASK
    ELSE SubSeq(value, 1, 4) \o ELLIPSIS \o SubSeq(value, Len(value) - 3, Len(value))

\* _is_sensitive_key without the lower(): the terms found as they are spelt
_is_sensitive_key_cased(key_hint) ==
    LET hint == Chars(key_hint)
    IN  \E secret_key \in SENSITIVE_KEYS : IsSubstring(Chars(secret_key), hint)

_is_sensitive_key(key_hint) ==
    LET hint == LowerChars(Chars(key_hint))
    IN  \E secret_key \in SENSITIVE_KEYS : IsSubstring(Chars(secret_key), hint)

RECURSIVE redact_value(_, _), RedactItems(_, _), RedactEntries(_)
redact_value(value, key_hint) ==
    IF _is_sensitive_key(key_hint)
    THEN IF value[1] = "str" THEN Str(mask_secret(value[2])) ELSE Str(MASK)
    ELSE IF value[1] = "dict" THEN <<"dict", RedactEntries(value[2])>>
    ELSE IF value[1] \in {"list", "tuple"} THEN <<value[1], RedactItems(value[2], key_hint)>>
    ELSE value

\* {k: redact_value(v, k) for k, v in value.items()}
RedactEntries(pairs) ==
    IF pairs = <<>> THEN <<>>
    ELSE <<<<pairs[1][1], redact_value(pairs[1][2], pairs[1][1])>>>> \o RedactEntries(Tail(pairs))

\* [redact_value(item, key_hint) for item in value]
RedactItems(items, key_hint) ==
    IF items = <<>> THEN <<>>
    ELSE <<redact_value(items[1], key_hint)>> \o RedactItems(Tail(items), key_hint)

---------------------------------------------------------------------------
(* client.py *)

\* What the network answers to a request: fail is an httpx.HTTPError (no
\* response); otherwise the response's status code, its x-request-id header
\* (None without one), its body decoded as JSON (json = <<value>>) or, when it
\* is no JSON (json = <<>>), its text.
Response(status_code, request_id, json, text) ==
    [status_code |-> status_code, request_id |-> request_id, json |-> json,
     text |-> text, fail |-> FALSE]
TransportFailure ==
    [status_code |-> 0, request_id |-> None, json |-> <<>>, text |-> <<>>, fail |-> TRUE]
\* no answer, for a request that is not sent
NotSent == Response(0, None, <<>>, <<>>)

RECURSIVE Rstrip(_, _)
\* cs.rstrip(c)
Rstrip(cs, c) ==
    IF cs # <<>> /\ cs[Len(cs)] = c THEN Rstrip(SubSeq(cs, 1, Len(cs) - 1), c) ELSE cs

\* str(v): a str is itself
StrOf(v) == IF v[1] = "str" THEN v ELSE <<"strof", v>>

NoTokenConfigured == <<Lit("No API token configured."), Lit("Run npmctl login first.")>>

\* _headers raising for no request
_headers_lenient(token, auth_required) ==
    IF Truthy(token)
    THEN [err |-> <<>>,
          headers |-> <<<<"Content-Type", <<Lit("application/json")>>>>,
                        <<"Authorization", <<Lit("Bearer"), token>>>>>>]
    ELSE [err |-> <<>>, headers |-> <<<<"Content-Type", <<Lit("application/json")>>>>>>]

\* result: err, and the headers built
_headers(token, auth_required) ==
    IF Truthy(token)
    THEN [err |-> <<>>,
          headers |-> <<<<"Content-Type", <<Lit("application/json")>>>>,
                        <<"Authorization", <<Lit("Bearer"), token>>>>>>]
    ELSE IF auth_required
    THEN [err |-> NoTokenConfigured, headers |-> <<>>]
    ELSE [err |-> <<>>, headers |-> <<<<"Content-Type", <<Lit("application/json")>>>>>>]

\* _parse_payload giving up on a body that is no JSON
_parse_payload_json_only(response) ==
    IF response.json # <<>> THEN response.json[1] ELSE None

\* response.json(), and response.text on ValueError
_parse_payload(response) ==
    IF response.json # <<>> THEN response.json[1] ELSE Str(response.text)

\* _error_message falling back from the error object to the top-level message
_error_message_top_message(payload) ==
    IF payload[1] = "dict"
    THEN LET error_obj == DictGet(payload[2], "error")
         IN  IF error_obj[1] = "dict" /\ Truthy(DictGet(error_obj[2], "message"))
             THEN DictGet(error_obj[2], "message")
             ELSE PyOr(DictGet(payload[2], "message"), StrOf(payload))
    ELSE StrOf(payload)

_error_message(payload) ==
    IF payload[1] = "dict"
    THEN LET error_obj == DictGet(payload[2], "error")
         IN  IF error_obj[1] = "dict"
             THEN PyOr(DictGet(error_obj[2], "message"), StrOf(error_obj))
             ELSE PyOr(DictGet(payload[2], "message"), StrOf(payload))
    ELSE StrOf(payload)

\* preview(value): the text of the value; limit is the number of characters kept
preview(value) == <<"preview", value>>

\* the message of the NPMError _raise_api_error raises
_raise_api_error(method, path, response, payload, json_body, debug) ==
    <<Lit("API"), <<"status", response.status_code>>, Lit(method), Lit(path),
      _error_message(payload)>>
    \o (IF Truthy(response.request_id)
        THEN <<Lit("Request ID:"), response.request_id>> ELSE <<>>)
    \o (IF debug
        THEN <<Lit("Response payload:"), preview(redact_value(payload, "payload"))>>
                \o (IF json_body # None
                    THEN <<Lit("Request payload:"), preview(redact_value(json_body, "json_body"))>>
                    ELSE <<>>)
        ELSE <<Lit("Tip: rerun with --debug (or set NPM_CLI_DEBUG=1) for full logs.")>>)

\* client: [base_url, token]; net: the network's answer, should the request
\* be sent. Result: err, the payload returned, and the requests handed to the
\* network (httpx.request called), in order.
_request(client, method, path, json_body, auth_required, net, debug) ==
    LET headers == _headers(client.token, auth_required)
        request == [json |-> json_body,
                    headers |-> headers.headers,
                    method |-> method,
                    url |-> <<"url", Rstrip(client.base_url[2], "/"), path>>]
        payload == _parse_payload(net)
    IN  IF headers.err # <<>>
        THEN [err |-> headers.err, payload |-> None, sends |-> <<>>]
        ELSE IF net.fail
        THEN [err |-> <<Lit("HTTP request failed:"), Lit("httpx.HTTPError")>>,
              payload |-> None, sends |-> <<request>>]
        ELSE IF net.status_code >= 400
        THEN [err |-> _raise_api_error(method, path, net, payload, json_body, debug),
              payload |-> None, sends |-> <<request>>]
        ELSE [err |-> <<>>, payload |-> payload, sends |-> <<request>>]

---------------------------------------------------------------------------
(* Credential resolution on its own: one installation (vault, legacy files), *)
(* then one process calling resolve_base_url_and_token, with every argument  *)
(* and every environment.                                                    *)

EmptyNamespace == [n \in SecretNames |-> <<>>]
Garbage == <<<<"raw", "garbage">>>>
StoredLogin(u, t) == <<json_dumps(LoginPayload(Str(u), Str(t), None, Str(<<"m", "e">>)))>>
FileOf(d) == <<json_dumps(d)>>

\* the login record of the current namespace: none, or one a login stored
ResolveCurrentPool == {<<>>, StoredLogin(<<"u", "C">>, <<"t", "C">>)}
\* that of the legacy namespace: none, an empty string, a record, not JSON
ResolveLegacyPool == {<<>>, <<<<>>>>, StoredLogin(<<"u", "L">>, <<"t", "L">>), <<Garbage>>}
\* a legacy file: missing, malformed, a JSON number, {}, and objects
FilePool1 ==
    {<<>>, <<Garbage>>, <<<<<<"num", <<"5">>>>>>>>, FileOf(<<>>),
     FileOf(<<<<"base_url", Str(<<"u", "D">>)>>, <<"token", Str(<<"t", "D">>)>>>>),
     FileOf(<<<<"base_url", Str(<<"u", "D">>)>>>>),
     FileOf(<<<<"token", Str(<<"t", "D">>)>>>>),
     FileOf(<<<<"base_url", Str(<<>>)>>, <<"token", Str(<<>>)>>>>)}
FilePool2 ==
    {<<>>, <<<<>>>>,
     FileOf(<<<<"base_url", Str(<<"u", "E">>)>>, <<"token", Str(<<"t", "E">>)>>>>),
     FileOf(<<<<"token", Str(<<"t", "E">>)>>>>)}

ExplicitBaseUrls == {None, Str(<<>>), Str(<<"u", "A">>)}
ExplicitTokens == {None, Str(<<>>), Str(<<"t", "A">>)}
EnvBaseUrls == {None, Str(<<>>), Str(<<"u", "B">>)}
EnvTokens == {None, Str(<<>>), Str(<<"t", "B">>)}
\* the backend's answers to the two reads of the login record
ReadOutcomes == {<<OK, OK>>, <<LockedText, OK>>, <<OK, LockedText>>}

InitResolve ==
    /\ \E c \in ResolveCurrentPool, l \in ResolveLegacyPool :
          vault = [sv \in Services |->
                     [EmptyNamespace EXCEPT ![LOGIN_INFO_KEY] =
                         IF sv = SERVICE_NAME THEN c ELSE l]]
    /\ vault0 = vault
    /\ keyringLoaded \in BOOLEAN
    /\ file1 \in FilePool1
    /\ file2 \in FilePool2
    /\ op = "none"
    /\ inp = <<>>
    /\ out = <<>>

Resolve ==
    /\ op = "none"
    /\ \E base_url \in ExplicitBaseUrls, token \in ExplicitTokens,
          require_token \in BOOLEAN,
          eb \in EnvBaseUrls, et \in EnvTokens, o \in ReadOutcomes :
        /\ op' = "resolve"
        /\ inp' = [o1 |-> o[1], o2 |-> o[2],
                   base_url |-> base_url,
                   token |-> token,
                   require_token |-> require_token, environ |-> [NPM_BASE_URL |-> eb, NPM_TOKEN |-> et]]
        /\ out' = resolve_base_url_and_token(
                      base_url, token, require_token,
                      [NPM_BASE_URL |-> eb, NPM_TOKEN |-> et],
                      vault, keyringLoaded, o[1], o[2], file1, file2)
        /\ UNCHANGED <<store, files>>

NextResolve == Resolve

SpecResolve == InitResolve /\ [][NextResolve]_vars

---------------------------------------------------------------------------
(* Claims about credential resolution (checked under SpecResolve) *)

\* The four sources of a field of the last resolve call, in the order of the
\* claim: argument, environment variable, stored login record, legacy file.
VaultRecord == _load_keyring_login_info(vault, keyringLoaded, inp.o1, inp.o2)
FileRecord == _load_legacy_login_info(file1, file2)
BaseUrlSources ==
    <<inp.base_url, inp.environ.NPM_BASE_URL,
      DictGet(VaultRecord, "base_url"), DictGet(FileRecord, "base_url")>>
TokenSources ==
    <<inp.token, inp.environ.NPM_TOKEN,
      DictGet(VaultRecord, "token"), DictGet(FileRecord, "token")>>

AnyNonEmpty(sources) == \E i \in 1..Len(sources) : Truthy(sources[i])
IsFirstNonEmpty(x, sources) ==
    \E i \in 1..Len(sources) :
        /\ Truthy(sources[i])
        /\ x = sources[i]
        /\ \A j \in 1..(i - 1) : ~Truthy(sources[j])

\* C1: for each field on its own, a resolve that returns yields the value of
\* the first source that is non-empty, in the order argument, environment
\* variable, stored login record, legacy file; an empty string counts as absent.
C1_Precedence ==
    (op = "resolve" /\ out.err = <<>>) =>
        /\ IsFirstNonEmpty(out.base_url, BaseUrlSources)
        /\ AnyNonEmpty(TokenSources) => IsFirstNonEmpty(out.token, TokenSources)

\* C1 witness: the argument is empty and the environment variable not set, so
\* the base URL is the stored record's although a legacy file has one too, and
\* the token is the environment's although record and file have one.
C1_Witness ==
    /\ op = "resolve"
    /\ out.err = <<>>
    /\ inp.base_url = Str(<<>>)
    /\ inp.environ.NPM_BASE_URL = None
    /\ DictGet(FileRecord, "base_url") = Str(<<"u", "D">>)
    /\ out.base_url = Str(<<"u", "C">>)
    /\ inp.token = None
    /\ DictGet(FileRecord, "token") = Str(<<"t", "D">>)
    /\ out.token = Str(<<"t", "B">>)

\* the parts of C2 that hold as stated
C2_Errors ==
    /\ out.err = MissingBaseUrl <=> ~AnyNonEmpty(BaseUrlSources)
    /\ out.err = MissingToken => (inp.require_token /\ ~AnyNonEmpty(TokenSources))
    /\ (~inp.require_token /\ AnyNonEmpty(BaseUrlSources)) => out.err = <<>>
    /\ (out.err = <<>> /\ inp.require_token) => Truthy(out.token)
    /\ out.err = <<>> => Truthy(out.base_url)
    /\ out.err \in {<<>>, MissingBaseUrl, MissingToken}

---------------------------------------------------------------------------
(* Redaction on its own: redact_value applied to one structured value, and  *)
(* applied again to what it returned.                                        *)

MaxShortLen == 3
MaxMidLen == 3

Alphabet == {"a", ".", "*"}
StringsUpTo(n) == UNION {[1..m -> Alphabet] : m \in 0..n}
\* short strings, and strings of 8 characters and more: 4 fixed ones, a
\* middle, 4 fixed ones
ShortStrings == StringsUpTo(MaxShortLen)
LongStrings ==
    {<<"a", "b", "c", "d">> \o mid \o <<"w", "x", "y", "z">> : mid \in StringsUpTo(MaxMidLen)}
RedactStrings == {Str(cs) : cs \in ShortStrings \cup LongStrings}
\* a few of them, for the values with several leaves
FewLeaves ==
    {None, <<"num", <<"7">>>>, Str(<<"a">>), Str(MASK),
     Str(<<"a", "b", "c", "d", "a", "w", "x", "y", "z">>)}
RedactLeaves == RedactStrings \cup FewLeaves

\* key names: with and without a denylist term, in several casings
RedactKeys ==
    {"name", "toke", "pass_word", "token", "API_TOKEN", "Authorization",
     "client_Secret", "Password", "dns_provider_credentials"}
FewKeys == {"name", "meta", "API_TOKEN", "Password"}

Dict1(k, v) == <<"dict", <<<<k, v>>>>>>
Dict2(k1, v1, k2, v2) == <<"dict", <<<<k1, v1>>, <<k2, v2>>>>>>
RedactValues ==
    RedactLeaves
    \cup {Dict1(k, v) : k \in RedactKeys, v \in RedactLeaves}
    \cup {<<"list", <<v>>>> : v \in RedactLeaves}
    \cup {<<"tuple", <<v, w>>>> : v \in FewLeaves, w \in FewLeaves}
    \cup {Dict1(k1, Dict1(k2, v)) : k1 \in FewKeys, k2 \in FewKeys, v \in RedactLeaves}
    \cup {Dict1(k1, <<"list", <<v, Dict1(k2, w)>>>>) :
              k1 \in FewKeys, k2 \in FewKeys, v \in FewLeaves, w \in FewLeaves}
    \cup {Dict2("name", v, k, w) : k \in FewKeys \ {"name"}, v \in FewLeaves, w \in FewLeaves}
    \cup {<<"dict", <<>>>>, <<"list", <<>>>>}
RedactHints == {"", "payload", "json_body", "token", "Authorization"}

InitRedact ==
    /\ vault = [sv \in Services |-> EmptyNamespace]
    /\ vault0 = vault
    /\ keyringLoaded = TRUE
    /\ file1 = <<>>
    /\ file2 = <<>>
    /\ op = "none"
    /\ inp = <<>>
    /\ out = <<>>

Redact ==
    /\ op = "none"
    /\ \E value \in RedactValues, key_hint \in RedactHints :
        /\ op' = "redact"
        /\ inp' = [value |-> value, key_hint |-> key_hint]
        /\ out' = [once |-> redact_value(value, key_hint),
                   twice |-> redact_value(redact_value(value, key_hint), key_hint)]
        /\ UNCHANGED <<store, files>>

NextRedact == Redact

SpecRedact == InitRedact /\ [][NextRedact]_vars

---------------------------------------------------------------------------
(* Claims about redaction (checked under SpecRedact) *)

\* C7: redaction is idempotent: redacting what redact_value returned, with
\* the same key hint, returns it unchanged, for every value and key hint.
C7_Idempotent == op = "redact" => out.twice = out.once

\* C7 witness: a redaction that masked a long string to its preview (first
\* 4 characters, ellipsis, last 4) inside a mapping, and left it so again.
C7_Witness ==
    /\ op = "redact"
    /\ inp.value = Dict1("API_TOKEN", Str(<<"a", "b", "c", "d", "a", "w", "x", "y", "z">>))
    /\ out.once = Dict1("API_TOKEN", Str(<<"a", "b", "c", "d", ".", ".", ".", "w", "x", "y", "z">>))
    /\ out.twice = out.once

\* the key names of the model that contain a denylist term in some casing
DenylistedKeys ==
    {"token", "API_TOKEN", "Authorization", "client_Secret", "Password",
     "dns_provider_credentials"}

IsPreview(v) == v[1] = "str" /\ Len(v[2]) = 11 /\ SubSeq(v[2], 5, 7) = ELLIPSIS

RECURSIVE NoSecretSurvives(_, _, _, _)
\* Every value found in `red` at a denylisted key (the hint, or a key of a
\* mapping at any depth) differs from the value `orig` has there, unless the
\* original is in `exempt` (a predicate given as the set of the values
\* of the model that satisfy it).
NoSecretSurvives(orig, red, hint, exempt) ==
    IF hint \in DenylistedKeys
    THEN red # orig \/ orig \in exempt
    ELSE IF orig[1] = "dict"
    THEN /\ red[1] = "dict"
         /\ Len(red[2]) = Len(orig[2])
         /\ \A i \in 1..Len(orig[2]) :
               /\ red[2][i][1] = orig[2][i][1]
               /\ NoSecretSurvives(orig[2][i][2], red[2][i][2], orig[2][i][1], exempt)
    ELSE IF orig[1] \in {"list", "tuple"}
    THEN /\ red[1] = orig[1]
         /\ Len(red[2]) = Len(orig[2])
         /\ \A i \in 1..Len(orig[2]) :
               NoSecretSurvives(orig[2][i], red[2][i], hint, exempt)
    ELSE TRUE

\* C8 as stated: after one redaction pass the value at every key that
\* contains a denylist term, in any casing and at any depth, differs from
\* the original value, unless the original was the mask marker.
C8_AsStated ==
    op = "redact" =>
        NoSecretSurvives(inp.value, out.once, inp.key_hint, {Str(MASK)})

\* C8 amended: ... unless the original was already a masked form: the mask
\* marker, or a string of 11 characters whose 5th to 7th are the ellipsis
\* (what mask_secret returns for a long string), which masking returns as is.
C8_MaskedOrAlreadyMasked ==
    op = "redact" =>
        NoSecretSurvives(inp.value, out.once, inp.key_hint,
                         {v \in RedactStrings : v = Str(MASK) \/ IsPreview(v)})

\* C8 witness: a secret under a denylisted key in capitals, two levels down,
\* was replaced by the mask.
C8_Witness ==
    /\ op = "redact"
    /\ inp.key_hint = "payload"
    /\ inp.value = Dict1("meta", Dict1("API_TOKEN", Str(<<"a", ".", "*">>)))
    /\ out.once = Dict1("meta", Dict1("API_TOKEN", Str(MASK)))


---------------------------------------------------------------------------
(* The commands (commands/secrets.py, commands/auth.py, cli_helpers.py) *)

\* The result of a command: code is the exit code, err the message
\* exit_with_error prints (<<>> if none), printed what the command prints on
\* standard output, val what its read of the secret store returned, vault the
\* vault it leaves, calls its calls to the backend and sends the requests it
\* handed to the network, both in order.
Exit(err, printed, val, v, calls, sends) ==
    [vault |-> v, val |-> val,
     calls |-> calls,
     err |-> err, sends |-> sends, printed |-> IF err = <<>> THEN printed ELSE <<>>, code |-> IF err = <<>> THEN 0 ELSE 1]

\* the text of a str
TextOf(value) == IF value[2] = <<>> THEN <<>> ELSE <<<<"raw", value[2]>>>>

cf_token_set(v, loaded, token, o) ==
    LET r == set_secret(v, loaded, CF_TOKEN_KEY, TextOf(PyOr(token, Str(<<>>))), o)
    IN  Exit(r.err, <<Lit("Cloudflare token saved in OS keyring.")>>,
             <<>>, r.vault, r.calls, <<>>)

cf_token_delete(v, loaded, o1, o2) ==
    LET r == delete_secret(v, loaded, CF_TOKEN_KEY, o1, o2)
    IN  Exit(r.err, <<Lit("Cloudflare token deleted from OS keyring.")>>,
             <<>>, r.vault, r.calls, <<>>)

cf_token_status(v, loaded, o1, o2) ==
    LET r == get_secret(v, loaded, CF_TOKEN_KEY, o1, o2)
        exists == TruthyText(r.val)
    IN  Exit(r.err,
             IF exists THEN <<Lit("Cloudflare token is stored in keyring.")>>
                       ELSE <<Lit("No Cloudflare token stored in keyring.")>>,
             r.val, r.vault, r.calls, <<>>)

login_status(v, loaded, o1, o2) ==
    LET r == get_secret(v, loaded, LOGIN_INFO_KEY, o1, o2)
        info == get_login_info(v, loaded, o1, o2)
    IN  Exit(info.err,
             IF info.d = <<>>
             THEN <<Lit("No stored login found in OS keyring.")>>
             ELSE <<Lit("Stored login found in OS keyring."),
                    Lit("Identity:"), PyOr(DictGet(info.d, "identity"), Lit("(unknown)")),
                    Lit("Base URL:"), PyOr(DictGet(info.d, "base_url"), Lit("(unknown)")),
                    Lit("Token expires:"), PyOr(DictGet(info.d, "expires"), Lit("(unknown)"))>>,
             r.val, r.vault, r.calls, <<>>)

logout(v, loaded, o1, o2) ==
    LET r == clear_login_info(v, loaded, o1, o2)
    IN  Exit(r.err, <<Lit("Stored login removed from OS keyring.")>>,
             <<>>, r.vault, r.calls, <<>>)

\* result: the client, or err
build_client(base_url, token, require_token, environ, v, loaded, o1, o2, f1, f2) ==
    LET r == resolve_base_url_and_token(base_url, token, require_token, environ,
                                        v, loaded, o1, o2, f1, f2)
    IN  [err |-> r.err, base_url |-> r.base_url, token |-> r.token]

request_token(client, identity, secret, scope, net, debug) ==
    LET body == <<"dict", <<<<"identity", identity>>, <<"secret", secret>>,
                            <<"scope", scope>>>>>>
    IN  _request(client, "POST", "/tokens", body, FALSE, net, debug)

\* _extract_token_data taking whatever the response has
_extract_token_data_unchecked(data) ==
    IF data[1] # "dict"
    THEN [err |-> <<Lit("AttributeError"), Lit("object has no attribute 'get'")>>,
          token |-> None, expires |-> None]
    ELSE [err |-> <<>>, token |-> DictGet(data[2], "token"),
          expires |-> DictGet(data[2], "expires")]

\* data.get on a payload that is no dict is an AttributeError
_extract_token_data(data) ==
    IF data[1] # "dict"
    THEN [err |-> <<Lit("AttributeError"), Lit("object has no attribute 'get'")>>,
          token |-> None, expires |-> None]
    ELSE IF Truthy(DictGet(data[2], "requires_2fa"))
    THEN [err |-> <<Lit("2FA required."), Lit("Use /tokens/2fa flow manually for now.")>>,
          token |-> None, expires |-> None]
    ELSE IF ~Truthy(DictGet(data[2], "token"))
    THEN [err |-> <<Lit("Login response did not include a token.")>>,
          token |-> None, expires |-> None]
    ELSE [err |-> <<>>, token |-> DictGet(data[2], "token"),
          expires |-> DictGet(data[2], "expires")]

save_login(v, loaded, base_url, token, expires, identity, o) ==
    set_login_info(v, loaded, base_url, token, expires, identity, o)

\* The value of a one-element set
The(S) == CHOOSE r \in S : TRUE

\* o1, o2: the backend's answers to the reads of the stored login; net: the
\* network's answer to the token request; o: the backend's answer to the write.
\* Each statement's result is bound once, to the one element of a set.
login(identity, secret, base_url, scope, environ, v, loaded, o1, o2, f1, f2, net, o, debug) ==
    LET reads == get_secret(v, loaded, LOGIN_INFO_KEY, o1, o2).calls
    IN
    The({ IF client.err # <<>> THEN Exit(client.err, <<>>, <<>>, v, reads, <<>>)
          ELSE
    The({ IF data.err # <<>> THEN Exit(data.err, <<>>, <<>>, v, reads, data.sends)
          ELSE
    The({ IF extracted.err # <<>>
          THEN Exit(extracted.err, <<>>, <<>>, v, reads, data.sends)
          ELSE
    The({ Exit(saved.err,
               <<Lit("Login successful. Token saved in OS keyring.")>>
                  \o (IF Truthy(extracted.expires)
                      THEN <<Lit("Token expires:"), extracted.expires>> ELSE <<>>),
               <<>>, saved.vault, reads \o saved.calls, data.sends)
          : saved \in {save_login(v, loaded, client.base_url, extracted.token,
                                  extracted.expires, identity, o)} })
          : extracted \in {_extract_token_data(data.payload)} })
          : data \in {request_token(client, identity, secret, scope, net, debug)} })
          : client \in {build_client(base_url, None, FALSE, environ, v, loaded,
                                     o1, o2, f1, f2)} })

---------------------------------------------------------------------------
(* The installation: a vault that an earlier npm-cli may have filled, and a  *)
(* user running the commands of npmctl one after the other.                  *)

\* the answer to a call that is not made
NotCalled == <<"not called">>

CfTokenText(cs) == <<<<<<"raw", cs>>>>>>

\* What the legacy namespace holds when npmctl is installed: an empty
\* Cloudflare token and a login record, or a Cloudflare token and no login.
LegacyPool ==
    {[EmptyNamespace EXCEPT ![CF_TOKEN_KEY] = <<<<>>>>,
                            ![LOGIN_INFO_KEY] = StoredLogin(<<"u", "L">>, <<"t", "L">>)],
     [EmptyNamespace EXCEPT ![CF_TOKEN_KEY] = CfTokenText(<<"c", "L">>)]}

\* --token of cf-token-set: None when the prompt is answered with nothing
CfTokens == {None, Str(<<"c", "A">>)}
LoginBaseUrls == {None, Str(<<"u", "A">>)}
NoEnviron == [NPM_BASE_URL |-> None, NPM_TOKEN |-> None]
Identity == Str(<<"m", "e">>)
Secret == Str(<<"p", "w">>)
Scope == Str(<<"u", "s", "e", "r">>)

\* the answers of POST /tokens
TokenAnswers ==
    {TransportFailure,
     Response(401, None,
              <<<<"dict", <<<<"error", <<"dict", <<<<"message", Str(<<"n", "o">>)>>>>>>>>>>>>>>,
              <<>>),
     Response(200, None,
              <<<<"dict", <<<<"token", Str(<<"t", "A">>)>>, <<"expires", Str(<<"e", "1">>)>>>>>>>>,
              <<>>),
     Response(200, None, <<<<"dict", <<<<"token", Str(<<"t", "B">>)>>>>>>>>, <<>>),
     Response(200, None, <<<<"dict", <<<<"requires_2fa", <<"bool", <<"T">>>>>>>>>>>>, <<>>),
     Response(200, None, <<<<"dict", <<<<"expires", Str(<<"e", "1">>)>>>>>>>>, <<>>),
     Response(200, None, <<>>, <<"O", "K">>)}

\* the answers of the backend to a command's calls, NotCalled for a call the
\* command does not come to
FirstReads(loaded, answers) == IF loaded THEN answers ELSE {NotCalled}
SecondReads(v, loaded, secret_name, o1, answers) ==
    IF loaded /\ o1 = OK /\ ~TruthyText(v[SERVICE_NAME][secret_name])
    THEN answers ELSE {NotCalled}
\* the answers to the reads of login
LoginReads == {OK, LockedText}
Writes(loaded) == IF loaded THEN CallOutcomes ELSE {NotCalled}
FirstDeletes(v, loaded, secret_name) ==
    IF loaded THEN DeleteOutcomes(v, SERVICE_NAME, secret_name) ELSE {NotCalled}
SecondDeletes(v, loaded, secret_name, o1) ==
    IF loaded /\ _delete_if_exists(v, SERVICE_NAME, secret_name, o1).err = <<>>
    THEN DeleteOutcomes(v, LEGACY_SERVICE_NAME, secret_name) ELSE {NotCalled}

Init ==
    /\ \E l \in LegacyPool :
          vault = [sv \in Services |-> IF sv = SERVICE_NAME THEN EmptyNamespace ELSE l]
    /\ vault0 = vault
    /\ keyringLoaded \in BOOLEAN
    /\ file1 = <<>>
    /\ file2 = <<>>
    /\ op = "none"
    /\ inp = <<>>
    /\ out = <<>>

Ran(name, input, result) ==
    \E r \in {result} :
        /\ op' = name
        /\ inp' = input
        /\ out' = r
        /\ vault' = r.vault
        /\ UNCHANGED <<vault0, keyringLoaded, files>>

CfTokenSet ==
    \E token \in CfTokens, o \in Writes(keyringLoaded) :
        Ran("cf_token_set", [o |-> o, token |-> token],
            cf_token_set(vault, keyringLoaded, token, o))

CfTokenDelete ==
    \E o1 \in FirstDeletes(vault, keyringLoaded, CF_TOKEN_KEY) :
    \E o2 \in SecondDeletes(vault, keyringLoaded, CF_TOKEN_KEY, o1) :
        Ran("cf_token_delete", [o1 |-> o1, o2 |-> o2],
            cf_token_delete(vault, keyringLoaded, o1, o2))

CfTokenStatus ==
    \E o1 \in FirstReads(keyringLoaded, CallOutcomes) :
    \E o2 \in SecondReads(vault, keyringLoaded, CF_TOKEN_KEY, o1, CallOutcomes) :
        Ran("cf_token_status", [o1 |-> o1, o2 |-> o2],
            cf_token_status(vault, keyringLoaded, o1, o2))

LoginStatus ==
    \E o1 \in FirstReads(keyringLoaded, CallOutcomes) :
    \E o2 \in SecondReads(vault, keyringLoaded, LOGIN_INFO_KEY, o1, CallOutcomes) :
        Ran("login_status", [o1 |-> o1, o2 |-> o2],
            login_status(vault, keyringLoaded, o1, o2))

Logout ==
    \E o1 \in FirstDeletes(vault, keyringLoaded, LOGIN_INFO_KEY) :
    \E o2 \in SecondDeletes(vault, keyringLoaded, LOGIN_INFO_KEY, o1) :
        Ran("logout", [o1 |-> o1, o2 |-> o2],
            logout(vault, keyringLoaded, o1, o2))

Login ==
    \E base_url \in LoginBaseUrls :
    \E o1 \in FirstReads(keyringLoaded, LoginReads) :
    \E o2 \in SecondReads(vault, keyringLoaded, LOGIN_INFO_KEY, o1, LoginReads) :
    LET client == build_client(base_url, None, FALSE, NoEnviron, vault, keyringLoaded,
                               o1, o2, file1, file2)
        failed(net) == net.fail \/ net.status_code >= 400
    IN
    \E net \in IF client.err = <<>> THEN TokenAnswers ELSE {NotSent} :
    \E debug \in IF client.err = <<>> /\ ~net.fail /\ net.status_code >= 400
                 THEN BOOLEAN ELSE {FALSE} :
    \E o \in IF /\ client.err = <<>>
                /\ ~failed(net)
                /\ _extract_token_data(_parse_payload(net)).err = <<>>
             THEN Writes(keyringLoaded) ELSE {NotCalled} :
        Ran("login",
            [o |-> o, o1 |-> o1, o2 |-> o2, base_url |-> base_url,
             debug |-> debug, net |-> net],
            login(Identity, Secret, base_url, Scope, NoEnviron, vault, keyringLoaded,
                  o1, o2, file1, file2, net, o, debug))

Next ==
    \/ CfTokenSet
    \/ CfTokenDelete
    \/ CfTokenStatus
    \/ LoginStatus
    \/ Logout
    \/ Login

Spec == Init /\ [][Next]_vars

---------------------------------------------------------------------------
(* Claims about the secret store (checked under Spec) *)

GetOps == {"cf_token_status", "login_status"}
SetOps == {"cf_token_set", "login"}
DeleteOps == {"cf_token_delete", "logout"}

\* the key the last command worked on, and what the two namespaces hold for it
LastKey ==
    IF op \in {"cf_token_set", "cf_token_delete", "cf_token_status"}
    THEN CF_TOKEN_KEY ELSE LOGIN_INFO_KEY
Current == vault[SERVICE_NAME][LastKey]
Legacy == vault[LEGACY_SERVICE_NAME][LastKey]

\* the parts of C3 that hold as stated: the current namespace is read first,
\* its value returned when non-empty, and the legacy value only otherwise
C3_CurrentFirst ==
    /\ out.calls[1] = <<"get", SERVICE_NAME>>
    /\ TruthyText(Current) => (out.val = Current /\ Len(out.calls) = 1)
    /\ ~TruthyText(Current) =>
            /\ out.val = Legacy
            /\ out.calls[2] = <<"get", LEGACY_SERVICE_NAME>>

\* C3 as stated: get(key) returns the current-namespace value whenever it is
\* non-empty, the legacy value only when the current one is absent or empty,
\* and absent (None) when neither namespace holds a non-empty value.
C3_AsStated ==
    (op \in GetOps /\ out.err = <<>>) =>
        /\ C3_CurrentFirst
        /\ (~TruthyText(Current) /\ ~TruthyText(Legacy)) => out.val = <<>>

\* C3 amended: as C3, but when neither namespace holds a non-empty value the
\* result is the legacy value as it is: absent, or the empty string stored
\* there.
C3_CurrentThenLegacyAsIs ==
    (op \in GetOps /\ out.err = <<>>) =>
        /\ C3_CurrentFirst
        /\ (~TruthyText(Current) /\ ~TruthyText(Legacy)) =>
                (~TruthyText(out.val) /\ out.val = Legacy)

\* C3 witness: both namespaces hold the Cloudflare token, with different
\* values, and the read returns the one of the current namespace.
C3_Witness ==
    /\ op = "cf_token_status"
    /\ out.err = <<>>
    /\ Current = CfTokenText(<<"c", "A">>)
    /\ Legacy = CfTokenText(<<"c", "L">>)
    /\ out.val = Current

\* C4: the legacy namespace is never written: whatever the commands run,
\* every entry of the legacy namespace is one that was there initially; a
\* command that sets a secret changes nothing but that key of the current
\* namespace; and only the deleting commands change the legacy namespace.
C4_LegacyNeverWritten ==
    /\ [](\A k \in SecretNames :
            vault[LEGACY_SERVICE_NAME][k] \in {<<>>, vault0[LEGACY_SERVICE_NAME][k]})
    /\ [][/\ op' \in SetOps =>
                vault' = [vault EXCEPT ![SERVICE_NAME][LastKey'] =
                                            vault'[SERVICE_NAME][LastKey']]
          /\ vault'[LEGACY_SERVICE_NAME] # vault[LEGACY_SERVICE_NAME] =>
                op' \in DeleteOps]_vars

\* C4 witness: a login has stored its record in the current namespace, and
\* the login record npm-cli left in the legacy namespace is as it was.
C4_Witness ==
    /\ op = "login"
    /\ out.err = <<>>
    /\ vault[SERVICE_NAME][LOGIN_INFO_KEY] # <<>>
    /\ vault0[LEGACY_SERVICE_NAME][LOGIN_INFO_KEY] # <<>>
    /\ vault[LEGACY_SERVICE_NAME][LOGIN_INFO_KEY] = vault0[LEGACY_SERVICE_NAME][LOGIN_INFO_KEY]
    /\ vault[SERVICE_NAME][LOGIN_INFO_KEY] # vault[LEGACY_SERVICE_NAME][LOGIN_INFO_KEY]

BothNamespaces == <<<<"delete", SERVICE_NAME>>, <<"delete", LEGACY_SERVICE_NAME>>>>
\* an answer to delete_password after which delete goes on
Ignored(o) == o = OK \/ InLowered("not found", o)

\* the part of C5 about a delete that returns: the key is left in neither
\* namespace, and a get of it returns absent
C5_Deleted ==
    out.err = <<>> =>
        /\ Current = <<>>
        /\ Legacy = <<>>
        /\ get_secret(vault, keyringLoaded, LastKey, OK, OK).val = <<>>

\* C5 as stated: every delete attempts the deletion in both namespaces; it
\* fails only for a failure of the vault; after a delete that returns neither
\* namespace holds the key.
C5_AsStated ==
    op \in DeleteOps =>
        /\ out.calls = BothNamespaces
        /\ C5_Deleted

\* C5 amended: a delete attempts the current namespace first, and the legacy
\* namespace only if the first attempt did not fail; an answer whose text
\* contains "not found" (in any casing) is no failure, any other error of the
\* vault ends the delete with an error at once; with the vault integration
\* unavailable nothing is attempted. After a delete that returns neither
\* namespace holds the key.
C5_CurrentThenLegacy ==
    op \in DeleteOps =>
        /\ ~keyringLoaded => (out.calls = <<>> /\ out.err = UnavailableMessage)
        /\ keyringLoaded =>
            /\ out.calls =
                  IF Ignored(inp.o1) THEN BothNamespaces ELSE <<<<"delete", SERVICE_NAME>>>>
            /\ out.err = <<>> <=> (Ignored(inp.o1) /\ Ignored(inp.o2))
        /\ C5_Deleted

\* C5 witness: a logout that found nothing in the current namespace, was told
\* so, and went on to delete the login record of the legacy namespace.
C5_Witness ==
    /\ op = "logout"
    /\ out.err = <<>>
    /\ inp.o1 = ItemNotFoundText
    /\ inp.o2 = OK
    /\ out.calls = BothNamespaces
    /\ vault0[LEGACY_SERVICE_NAME][LOGIN_INFO_KEY] # <<>>
    /\ Legacy = <<>>

\* the error text of the backend that made the last command's operation of
\* the secret store fail, <<>> if none did; login fails for its write only
Failure(o) == IF o \in {OK, NotCalled} THEN <<>> ELSE o
DeleteFailure(o) == IF Ignored(o) THEN <<>> ELSE Failure(o)
Rejection ==
    CASE op \in GetOps ->
            IF Failure(inp.o1) # <<>> THEN inp.o1 ELSE Failure(inp.o2)
      [] op \in SetOps -> Failure(inp.o)
      [] op \in DeleteOps ->
            IF DeleteFailure(inp.o1) # <<>> THEN inp.o1 ELSE DeleteFailure(inp.o2)
      [] OTHER -> <<>>
HasHint(err) == \E i \in 1..Len(err) : err[i] = Lit(HintPhrase)
HasText(err, exc) ==
    \E i \in 1..Len(err) : SubSeq(err, i, i + Len(exc) - 1) = Lits(exc)

\* C6 as stated: every get, set or delete that the backend rejects ends in an
\* error whose message includes the remediation hint.
C6_AsStated ==
    Rejection # <<>> => (out.code = 1 /\ HasHint(out.err))

\* C6 amended: every get, set or delete that the backend rejects ends in an
\* error whose message carries the backend's own text; the message includes
\* the remediation hint exactly when that text contains "no recommended
\* backend was available" (in any casing).
C6_HintForMissingBackend ==
    Rejection # <<>> =>
        /\ out.code = 1
        /\ HasText(out.err, Rejection)
        /\ HasHint(out.err) <=> InLowered("no recommended backend was available", Rejection)

\* C6 witness: the backend rejects the write of the Cloudflare token for want
\* of a backend, and the error carries the hint.
C6_Witness ==
    /\ op = "cf_token_set"
    /\ inp.o = NoBackendText
    /\ out.code = 1
    /\ HasHint(out.err)

---------------------------------------------------------------------------
(* client.py: the operations of NPMClient on their own. A caller constructs *)
(* a client (any base URL, any token) and calls its operations; the network *)
(* answers each request that reaches it.                                     *)

True == <<"bool", <<"T">>>>
False == <<"bool", <<"F">>>>
Bool(b) == IF b THEN True ELSE False
Num(digits) == <<"num", digits>>

\* f"dns_cloudflare_api_token = {cloudflare_api_token}"
Credentials(cloudflare_api_token) ==
    Str(<<"d", "n", "s", "_", "c", "l", "o", "u", "d", "f", "l", "a", "r", "e", "_", "a", "p", "i", "_", "t", "o", "k", "e", "n", " ", "=", " ">> \o cloudflare_api_token[2])

create_cloudflare_certificate(client, domain_names, cloudflare_api_token, nice_name, propagation_seconds, key_type, net, debug) ==
    LET credentials == Credentials(cloudflare_api_token)
        payload ==
            <<"dict",
              <<<<"provider", Str(<<"l", "e", "t", "s", "e", "n", "c", "r", "y", "p", "t">>)>>,
                <<"nice_name", PyOr(nice_name, domain_names[2][1])>>,
                <<"domain_names", domain_names>>,
                <<"meta",
                  <<"dict",
                    <<<<"dns_challenge", True>>,
                      <<"dns_provider", Str(<<"c", "l", "o", "u", "d", "f", "l", "a", "r", "e">>)>>,
                      <<"dns_provider_credentials", credentials>>,
                      <<"propagation_seconds", propagation_seconds>>,
                      <<"key_type", key_type>>>>>>>>>>>>
    IN  _request(client, "POST", "/nginx/certificates", payload, TRUE, net, debug)

create_proxy_host(client, domain_names, forward_host, forward_port, forward_scheme, certificate_id, ssl_forced, http2_support, hsts_enabled, hsts_subdomains, block_exploits, allow_websocket_upgrade, caching_enabled, enabled, net, debug) ==
    LET payload ==
            <<"dict",
              <<<<"domain_names", domain_names>>,
                <<"forward_scheme", forward_scheme>>,
                <<"forward_host", forward_host>>,
                <<"forward_port", forward_port>>,
                <<"ssl_forced", Bool(ssl_forced)>>,
                <<"http2_support", Bool(http2_support)>>,
                <<"hsts_enabled", Bool(hsts_enabled)>>,
                <<"hsts_subdomains", Bool(hsts_subdomains)>>,
                <<"block_exploits", Bool(block_exploits)>>,
                <<"allow_websocket_upgrade", Bool(allow_websocket_upgrade)>>,
                <<"caching_enabled", Bool(caching_enabled)>>,
                <<"enabled", Bool(enabled)>>,
                <<"access_list_id", Num(<<"0">>)>>,
                <<"advanced_config", Str(<<>>)>>,
                <<"locations", <<"list", <<>>>>>>>>
               \o (IF certificate_id # None
                   THEN <<<<"certificate_id", certificate_id>>>> ELSE <<>>)>>
    IN  _request(client, "POST", "/nginx/proxy-hosts", payload, TRUE, net, debug)

\* the clients a caller constructs
Clients ==
    [base_url : {Str(<<"h">>), Str(<<"h", "/">>)},
     token : {None, Str(<<>>), Str(<<"t", "A">>)}]

Dict(pairs) == <<"dict", pairs>>
TopMessage == Str(<<"t", "o", "p">>)
NestedMessage == Str(<<"s", "u", "b">>)
\* the value of a denylisted field that a server sends back in a body
EchoedValue == Str(<<"s", "K">>)

\* the bodies of the answers that report an error
ErrorBodies ==
    {<<Dict(<<<<"error", Dict(<<<<"code", Num(<<"5">>)>>, <<"message", NestedMessage>>>>)>>,
              <<"message", TopMessage>>>>)>>,
     <<Dict(<<<<"error", Dict(<<<<"code", Num(<<"5">>)>>>>)>>, <<"message", TopMessage>>>>)>>,
     <<Dict(<<<<"error", Dict(<<<<"message", Str(<<>>)>>>>)>>, <<"message", TopMessage>>>>)>>,
     <<Dict(<<<<"error", Dict(<<<<"message", NestedMessage>>>>)>>>>)>>,
     <<Dict(<<<<"error", Dict(<<<<"code", Num(<<"5">>)>>>>)>>>>)>>,
     <<Dict(<<<<"error", Str(<<"b", "a", "d">>)>>, <<"message", TopMessage>>>>)>>,
     <<Dict(<<<<"message", TopMessage>>>>)>>,
     <<Dict(<<<<"message", Str(<<>>)>>>>)>>,
     <<Dict(<<>>)>>,
     <<Dict(<<<<"error", Dict(<<<<"code", Num(<<"5">>)>>, <<"token", EchoedValue>>>>)>>>>)>>,
     <<Dict(<<<<"token", EchoedValue>>>>)>>,
     <<Dict(<<<<"message", TopMessage>>, <<"password", EchoedValue>>>>)>>,
     <<<<"list", <<TopMessage>>>>>>,
     <<>>}

\* the answers of the network: no response, errors with the bodies above
\* (text for the one that is no JSON), with and without a request id, and
\* successes with a JSON body and with a body that is no JSON
ClientAnswers ==
    {TransportFailure}
    \cup {Response(400, None, b, IF b = <<>> THEN <<"B", "a", "d">> ELSE <<>>) :
            b \in ErrorBodies}
    \cup {Response(500, Str(<<"r", "1">>), b, <<"B", "a", "d">>) :
            b \in {<<>>, <<Dict(<<<<"message", TopMessage>>>>)>>}}
    \cup {Response(200, None, <<Dict(<<<<"id", Num(<<"7">>)>>>>)>>, <<>>),
          Response(200, None, <<>>, <<"O", "K">>),
          Response(201, None, <<>>, <<"O", "K">>),
          Response(399, None, <<Dict(<<<<"message", TopMessage>>>>)>>, <<>>)}

\* the answer to a request of a client: NotSent for one that is not sent
AnswersTo(client, auth_required) ==
    IF _headers(client.token, auth_required).err = <<>>
    THEN ClientAnswers ELSE {NotSent}
\* is_debug() matters to a request that is answered with an error only
DebugOf(net) ==
    IF ~net.fail /\ net.status_code >= 400 THEN BOOLEAN ELSE {FALSE}

Domains == <<"list", <<Str(<<"a", ".", "b">>)>>>>

InitClient ==
    /\ vault = [sv \in Services |-> EmptyNamespace]
    /\ vault0 = vault
    /\ keyringLoaded = TRUE
    /\ file1 = <<>>
    /\ file2 = <<>>
    /\ op = "none"
    /\ inp = <<>>
    /\ out = <<>>

Called(name, input, result) ==
    /\ op' = name
    /\ inp' = input
    /\ out' = result
    /\ UNCHANGED <<store, files>>

RequestToken ==
    \E client \in Clients :
    \E net \in AnswersTo(client, FALSE) :
    \E debug \in DebugOf(net) :
        Called("request_token", [debug |-> debug, client |-> client, net |-> net],
               request_token(client, Identity, Secret, Scope, net, debug))

CreateCloudflareCertificate ==
    \E client \in Clients, nice_name \in {None, Str(<<"n">>)} :
    \E net \in AnswersTo(client, TRUE) :
    \E debug \in DebugOf(net) :
        Called("create_cloudflare_certificate",
               [debug |-> debug, client |-> client, net |-> net, nice_name |-> nice_name],
               create_cloudflare_certificate(
                   client, Domains, Str(<<"c", "A">>), nice_name,
                   Num(<<"3", "0">>), Str(<<"r", "s", "a">>), net, debug))

CreateProxyHost ==
    \E client \in Clients, certificate_id \in {None, Num(<<"7">>)} :
    \E net \in AnswersTo(client, TRUE) :
    \E debug \in DebugOf(net) :
        Called("create_proxy_host",
               [debug |-> debug, client |-> client,
                net |-> net, certificate_id |-> certificate_id],
               create_proxy_host(
                   client, Domains, Str(<<"h">>), Num(<<"8", "0">>),
                   Str(<<"h", "t", "t", "p">>), certificate_id,
                   certificate_id # None, FALSE, FALSE, FALSE, TRUE, TRUE, FALSE, TRUE,
                   net, debug))

NextClient ==
    \/ RequestToken
    \/ CreateCloudflareCertificate
    \/ CreateProxyHost

SpecClient == InitClient /\ [][NextClient]_vars

---------------------------------------------------------------------------
(* Claims about the request pipeline (checked under SpecClient) *)

AuthenticatedOps == {"create_cloudflare_certificate", "create_proxy_host"}
HasHeader(request, name) ==
    \E i \in 1..Len(request.headers) : request.headers[i][1] = name

\* C9: a request of an operation that requires authentication, made by a
\* client with no token (None or ""), fails with the error of the missing
\* token and hands nothing to the network, for certificate creation and for
\* proxy-host creation alike; the token request of such a client is sent, as
\* POST /tokens, without an Authorization header.
C9_NoTokenNoSend ==
    (op # "none" /\ ~Truthy(inp.client.token)) =>
        /\ op \in AuthenticatedOps =>
                /\ out.err = NoTokenConfigured
                /\ out.sends = <<>>
        /\ op = "request_token" =>
                /\ out.err # NoTokenConfigured
                /\ Len(out.sends) = 1
                /\ out.sends[1].method = "POST"
                /\ out.sends[1].url[3] = "/tokens"
                /\ ~HasHeader(out.sends[1], "Authorization")

\* C9 witness: proxy-host creation by a client whose token is the empty
\* string has failed for the missing token with nothing sent.
C9_Witness ==
    /\ op = "create_proxy_host"
    /\ inp.client.token = Str(<<>>)
    /\ out.err = NoTokenConfigured
    /\ out.sends = <<>>

\* the last request was answered with an error status: its body as parsed,
\* the error object and the messages in it, and the message of the ApiError
ApiErrorRaised ==
    /\ op # "none"
    /\ ~inp.net.fail
    /\ inp.net.status_code >= 400
Body == _parse_payload(inp.net)
BodyIsMapping == Body[1] = "dict"
ErrorObject == DictGet(Body[2], "error")
ErrorIsMapping == ErrorObject[1] = "dict"
NestedMessageOf == IF ErrorIsMapping THEN DictGet(ErrorObject[2], "message") ELSE None
TopMessageOf == DictGet(Body[2], "message")
MessageOfApiError == out.err[5]

\* C10 as stated: the message of an ApiError is the message of the nested
\* error object if it has one, else the top-level message, else the
\* stringified body; so a mapping with a non-empty top-level message and no
\* non-empty error.message gives the top-level message.
C10_AsStated ==
    ApiErrorRaised =>
        /\ out.err[1] = Lit("API")
        /\ MessageOfApiError =
              IF BodyIsMapping /\ Truthy(NestedMessageOf) THEN NestedMessageOf
              ELSE IF BodyIsMapping /\ Truthy(TopMessageOf) THEN TopMessageOf
              ELSE StrOf(Body)

\* C10 amended: the message of an ApiError is the non-empty message of the
\* nested error object if the body has an error object (a mapping); the
\* stringified error object if that object has no non-empty message, whatever
\* the top-level message; the non-empty top-level message if the body is a
\* mapping without an error object; and the stringified body otherwise.
C10_MessageByErrorObject ==
    ApiErrorRaised =>
        /\ out.err[1] = Lit("API")
        /\ MessageOfApiError =
              IF BodyIsMapping /\ ErrorIsMapping
              THEN (IF Truthy(NestedMessageOf) THEN NestedMessageOf ELSE StrOf(ErrorObject))
              ELSE IF BodyIsMapping /\ Truthy(TopMessageOf) THEN TopMessageOf
              ELSE StrOf(Body)

\* C10 witness: the body has a top-level message and an error object without
\* a message, and the ApiError's message is the stringified error object.
C10_Witness ==
    /\ ApiErrorRaised
    /\ BodyIsMapping
    /\ ErrorIsMapping
    /\ TopMessageOf = TopMessage
    /\ NestedMessageOf = None
    /\ MessageOfApiError = StrOf(ErrorObject)

\* the last call handed a request to the network, and the network answered it
Answered ==
    /\ op # "none"
    /\ out.sends # <<>>
    /\ ~inp.net.fail

\* C11: a request that is sent and answered raises an ApiError if and only if
\* the status of the response is 400 or more, and otherwise returns the parsed
\* body: the decoded JSON, or the text of the body as it is when the body is
\* no JSON, which by itself never makes the request fail.
C11_OutcomeByStatus ==
    Answered =>
        /\ out.err # <<>> <=> inp.net.status_code >= 400
        /\ out.err # <<>> =>
                /\ out.err[1] = Lit("API")
                /\ out.err[2] = <<"status", inp.net.status_code>>
                /\ out.payload = None
        /\ out.err = <<>> =>
                out.payload = IF inp.net.json # <<>> THEN inp.net.json[1]
                              ELSE Str(inp.net.text)

\* C11 witness: the token request was answered 200 with the body OK, which
\* is no JSON, and returned the text OK.
C11_Witness ==
    /\ op = "request_token"
    /\ Answered
    /\ inp.net.status_code = 200
    /\ inp.net.json = <<>>
    /\ out.err = <<>>
    /\ out.payload = Str(<<"O", "K">>)

---------------------------------------------------------------------------
(* Claims about login and logout (checked under Spec) *)

\* the login record read back from the vault, the backend answering
ReadBack(v) == get_login_info(v, keyringLoaded, OK, OK).d
\* the entries of the login record in the two namespaces
LoginEntries(v) == <<v[SERVICE_NAME][LOGIN_INFO_KEY], v[LEGACY_SERVICE_NAME][LOGIN_INFO_KEY]>>

\* C12: a login that succeeds leaves a record that reads back as exactly the
\* base URL it used (the --base-url given, else the one of the record stored
\* before), the token and the expiry of the response and the identity given,
\* whatever was stored before; a logout that succeeds leaves no record in
\* either namespace and none to read; and no other command changes the
\* login record. So after successful logins and logouts the record read back
\* is that of the last login since the last logout.
C12_LoginRecordLifecycle ==
    [][/\ (op' = "login" /\ out'.err = <<>>) =>
            /\ Len(ReadBack(vault')) = 4
            /\ DictGet(ReadBack(vault'), "base_url") =
                  PyOr(inp'.base_url,
                       DictGet(_load_keyring_login_info(vault, keyringLoaded, inp'.o1, inp'.o2),
                               "base_url"))
            /\ DictGet(ReadBack(vault'), "token") = DictGet(inp'.net.json[1][2], "token")
            /\ DictGet(ReadBack(vault'), "expires") = DictGet(inp'.net.json[1][2], "expires")
            /\ DictGet(ReadBack(vault'), "identity") = Identity
       /\ (op' = "logout" /\ out'.err = <<>>) =>
            /\ LoginEntries(vault') = <<<<>>, <<>>>>
            /\ ReadBack(vault') = <<>>
       /\ op' \notin {"login", "logout"} => LoginEntries(vault') = LoginEntries(vault)
      ]_vars

\* C12 witness: a login without --base-url has succeeded on the base URL that
\* an earlier login with --base-url stored, and its token, the second one the
\* server hands out, is the one read back; the legacy record is another.
C12_Witness ==
    /\ op = "login"
    /\ out.err = <<>>
    /\ inp.base_url = None
    /\ DictGet(ReadBack(vault), "base_url") = Str(<<"u", "A">>)
    /\ DictGet(ReadBack(vault), "token") = Str(<<"t", "B">>)
    /\ DictGet(ReadBack(vault), "expires") = None
    /\ vault[LEGACY_SERVICE_NAME][LOGIN_INFO_KEY] = StoredLogin(<<"u", "L">>, <<"t", "L">>)

RECURSIVE Writes_in(_)
\* the number of set_password calls among the calls of a command
Writes_in(calls) ==
    IF calls = <<>> THEN 0
    ELSE (IF Head(calls)[1] = "set" THEN 1 ELSE 0) + Writes_in(Tail(calls))

\* the response to the token request of the last login carries a token and
\* does not ask for 2FA
TokenGranted(net) ==
    /\ ~net.fail
    /\ net.status_code < 400
    /\ net.json # <<>>
    /\ net.json[1][1] = "dict"
    /\ ~Truthy(DictGet(net.json[1][2], "requires_2fa"))
    /\ Truthy(DictGet(net.json[1][2], "token"))

\* C13: a login that fails, at whatever step, leaves both namespaces of the
\* vault as they were, so the record read back is the one read before; a
\* login writes at most once, as its last call to the vault, and only after
\* its request was sent and answered with a success that carries a token and
\* does not require 2FA.
C13_FailedLoginNoWrite ==
    [][op' = "login" =>
        /\ out'.err # <<>> =>
                /\ vault' = vault
                /\ ReadBack(vault') = ReadBack(vault)
                /\ out'.code = 1
        /\ Writes_in(out'.calls) <= 1
        /\ Writes_in(out'.calls) = 1 =>
                /\ out'.calls[Len(out'.calls)] = <<"set", SERVICE_NAME>>
                /\ Len(out'.sends) = 1
                /\ TokenGranted(inp'.net)
        /\ ~TokenGranted(inp'.net) => out'.err # <<>>
      ]_vars

\* C13 witness: a login was answered that 2FA is required and ended in
\* error, with the record of an earlier login still in the vault.
C13_Witness ==
    /\ op = "login"
    /\ out.code = 1
    /\ out.sends # <<>>
    /\ inp.net.status_code = 200
    /\ inp.net.json # <<>>
    /\ Truthy(DictGet(inp.net.json[1][2], "requires_2fa"))
    /\ Writes_in(out.calls) = 0
    /\ DictGet(ReadBack(vault), "token") = Str(<<"t", "A">>)

---------------------------------------------------------------------------
(* commands/proxy_hosts.py: add-proxy-with-cert, one run of the command on  *)
(* an installation whose vault may hold a login record and a Cloudflare      *)
(* token, the network answering the requests that reach it.                  *)

Digits == {"0", "1", "2", "3", "4", "5", "6", "7", "8", "9"}

\* int(v): result err (the ValueError or TypeError raised) and val
IntOf(v) ==
    IF v[1] = "num" THEN [val |-> v, err |-> <<>>]
    ELSE IF v[1] = "bool" THEN [val |-> Num(IF v = True THEN <<"1">> ELSE <<"0">>), err |-> <<>>]
    ELSE IF v[1] = "str"
    THEN IF v[2] # <<>> /\ \A i \in 1..Len(v[2]) : v[2][i] \in Digits
         THEN [val |-> Num(v[2]), err |-> <<>>]
         ELSE [val |-> None,
               err |-> <<Lit("ValueError"), Lit("invalid literal for int() with base 10:"), v>>]
    ELSE [val |-> None,
          err |-> <<Lit("TypeError"), Lit("int() argument must be a string, a bytes-like object or a real number")>>]

NoGetAttribute == <<Lit("AttributeError"), Lit("object has no attribute 'get'")>>
NoCertificateId == <<Lit("Certificate creation succeeded but no certificate id was returned.")>>

\* _create_cloudflare_cert passing on whatever id the response has
_create_cloudflare_cert_any_id(client, domain, cloudflare_api_token, propagation_seconds, key_type, net, debug) ==
    The({ IF cert.err # <<>>
          THEN [err |-> cert.err, sends |-> cert.sends, cert_id |-> None]
          ELSE IF cert.payload[1] # "dict"
          THEN [err |-> NoGetAttribute, sends |-> cert.sends, cert_id |-> None]
          ELSE [err |-> <<>>, sends |-> cert.sends, cert_id |-> DictGet(cert.payload[2], "id")]
          : cert \in {create_cloudflare_certificate(
                          client, domain, cloudflare_api_token, None,
                          propagation_seconds, key_type, net, debug)} })

\* result: err, the requests sent and the certificate id returned
_create_cloudflare_cert(client, domain, cloudflare_api_token, propagation_seconds, key_type, net, debug) ==
    The({ IF cert.err # <<>>
          THEN [err |-> cert.err, sends |-> cert.sends, cert_id |-> None]
          ELSE IF cert.payload[1] # "dict"
          THEN [err |-> NoGetAttribute, sends |-> cert.sends, cert_id |-> None]
          ELSE IF ~Truthy(DictGet(cert.payload[2], "id"))
          THEN [err |-> NoCertificateId, sends |-> cert.sends, cert_id |-> None]
          ELSE [err |-> IntOf(DictGet(cert.payload[2], "id")).err,
                sends |-> cert.sends,
                cert_id |-> IntOf(DictGet(cert.payload[2], "id")).val]
          : cert \in {create_cloudflare_certificate(
                          client, domain, cloudflare_api_token, None,
                          propagation_seconds, key_type, net, debug)} })

_create_proxy_host_with_cert(client, domain, forward_host, forward_port, forward_scheme, cert_id, ssl_forced, http2_support, hsts_enabled, hsts_subdomains, net, debug) ==
    create_proxy_host(client, domain, forward_host, forward_port, forward_scheme,
                      cert_id, ssl_forced, http2_support, hsts_enabled, hsts_subdomains,
                      TRUE, TRUE, FALSE, TRUE, net, debug)

\* a list of str, which ", ".join accepts
IsStrList(v) == v[1] = "list" /\ \A i \in 1..Len(v[2]) : v[2][i][1] = "str"

\* result: err (host.get or join raising) and the lines printed
_print_combined_success(cert_id, host) ==
    IF host[1] # "dict" THEN [err |-> NoGetAttribute, printed |-> <<>>]
    ELSE LET domain_names == IF \E i \in 1..Len(host[2]) : host[2][i][1] = "domain_names"
                             THEN DictGet(host[2], "domain_names") ELSE <<"list", <<>>>>
         IN  IF ~IsStrList(domain_names)
             THEN [err |-> <<Lit("TypeError"), Lit("can only join an iterable")>>,
                   printed |-> <<Lit("Certificate and proxy host created successfully."),
                                 Lit("Certificate ID:"), cert_id,
                                 Lit("Proxy Host ID:"), DictGet(host[2], "id")>>]
             ELSE [err |-> <<>>,
                   printed |-> <<Lit("Certificate and proxy host created successfully."),
                                 Lit("Certificate ID:"), cert_id,
                                 Lit("Proxy Host ID:"), DictGet(host[2], "id"),
                                 Lit("Domains:"), domain_names>>]

Step1 == Lit("Step 1/2: Creating certificate via Cloudflare DNS challenge...")
Step2 == Lit("Step 2/2: Creating proxy host with that certificate...")

\* o1, o2: the backend's answers to the reads of the login record, c1, c2 to
\* those of the Cloudflare token; net1, net2: the network's answers to the
\* certificate request and to the proxy-host request. The lines echoed before
\* an error stay printed.
add_proxy_with_cert(domain, forward_host, forward_port, cloudflare_api_token, forward_scheme, propagation_seconds, key_type, ssl_forced, http2_support, hsts_enabled, hsts_subdomains, base_url, token, environ, v, loaded, o1, o2, c1, c2, f1, f2, net1, net2, debug) ==
    LET reads == get_secret(v, loaded, LOGIN_INFO_KEY, o1, o2).calls
    IN
    The({ IF client.err # <<>> THEN Exit(client.err, <<>>, <<>>, v, reads, <<>>)
          ELSE
    The({ IF resolved.err # <<>>
          THEN Exit(resolved.err, <<>>, <<>>, v, reads \o resolved.calls, <<>>)
          ELSE
    The({ IF cert.err # <<>>
          THEN [Exit(cert.err, <<>>, <<>>, v, reads \o resolved.calls, cert.sends)
                    EXCEPT !.printed = <<Step1>>]
          ELSE
    The({ IF host.err # <<>>
          THEN [Exit(host.err, <<>>, <<>>, v, reads \o resolved.calls,
                     cert.sends \o host.sends)
                    EXCEPT !.printed = <<Step1, Lit("Certificate created"), cert.cert_id, Step2>>]
          ELSE
    The({ [Exit(shown.err, <<>>, <<>>, v, reads \o resolved.calls,
                cert.sends \o host.sends)
               EXCEPT !.printed = <<Step1, Lit("Certificate created"), cert.cert_id, Step2>>
                                    \o shown.printed]
          : shown \in {_print_combined_success(cert.cert_id, host.payload)} })
          : host \in {_create_proxy_host_with_cert(
                          client, domain, forward_host, forward_port, forward_scheme,
                          cert.cert_id, ssl_forced, http2_support, hsts_enabled,
                          hsts_subdomains, net2, debug)} })
          : cert \in {_create_cloudflare_cert(client, domain, resolved.token,
                                              propagation_seconds, key_type, net1, debug)} })
          : resolved \in {resolve_cloudflare_token(cloudflare_api_token, v, loaded, c1, c2)} })
          : client \in {build_client(base_url, token, TRUE, environ, v, loaded,
                                     o1, o2, f1, f2)} })

\* the answers of POST /nginx/certificates: no response, an error, and
\* successes whose body has an id (a number, a numeral, 0, a word), has none,
\* or is no JSON
CertAnswers ==
    {TransportFailure,
     Response(400, None, <<Dict(<<<<"error", Dict(<<<<"message", NestedMessage>>>>)>>>>)>>, <<>>),
     Response(201, None, <<Dict(<<<<"id", Num(<<"7">>)>>>>)>>, <<>>),
     Response(201, None, <<Dict(<<<<"id", Str(<<"7">>)>>>>)>>, <<>>),
     Response(201, None, <<Dict(<<<<"id", Num(<<"0">>)>>>>)>>, <<>>),
     Response(201, None, <<Dict(<<<<"id", Str(<<"x">>)>>>>)>>, <<>>),
     Response(201, None, <<Dict(<<<<"nice_name", Str(<<"n">>)>>>>)>>, <<>>),
     Response(200, None, <<>>, <<"O", "K">>)}
\* the answers of POST /nginx/proxy-hosts
HostAnswers ==
    {TransportFailure,
     Response(500, Str(<<"r", "1">>), <<Dict(<<<<"message", TopMessage>>>>)>>, <<>>),
     Response(201, None, <<Dict(<<<<"id", Num(<<"9">>)>>, <<"domain_names", Domains>>>>)>>, <<>>),
     Response(201, None, <<Dict(<<<<"id", Num(<<"9">>)>>>>)>>, <<>>),
     Response(200, None, <<>>, <<"O", "K">>)}

ProxyBaseUrls == {None, Str(<<"u", "A">>)}
ProxyTokens == {None, Str(<<"t", "A">>)}
ProxyCfTokens == {None, Str(<<"c", "A">>)}

InitProxy ==
    /\ \E stored \in {<<>>, StoredLogin(<<"u", "C">>, <<"t", "C">>)},
          cf \in {<<>>, CfTokenText(<<"c", "C">>)},
          legacy_cf \in {<<>>, <<<<>>>>} :
          vault = [sv \in Services |->
                     IF sv = SERVICE_NAME
                     THEN [EmptyNamespace EXCEPT ![LOGIN_INFO_KEY] = stored,
                                                 ![CF_TOKEN_KEY] = cf]
                     ELSE [EmptyNamespace EXCEPT ![CF_TOKEN_KEY] = legacy_cf]]
    /\ vault0 = vault
    /\ keyringLoaded \in BOOLEAN
    /\ file1 = <<>>
    /\ file2 = <<>>
    /\ op = "none"
    /\ inp = <<>>
    /\ out = <<>>

\* an answer with an error status, for which is_debug() matters
ErrorStatus(net) == ~net.fail /\ net.status_code >= 400

AddProxyWithCert ==
    /\ op = "none"
    /\ \E base_url \in ProxyBaseUrls, token \in ProxyTokens,
          cloudflare_api_token \in ProxyCfTokens :
       \E o1 \in FirstReads(keyringLoaded, LoginReads) :
       \E o2 \in SecondReads(vault, keyringLoaded, LOGIN_INFO_KEY, o1, LoginReads) :
       \E client \in {build_client(base_url, token, TRUE, NoEnviron, vault,
                                   keyringLoaded, o1, o2, file1, file2)} :
       \E c1 \in IF client.err = <<>> /\ ~Truthy(cloudflare_api_token)
                 THEN FirstReads(keyringLoaded, LoginReads) ELSE {NotCalled} :
       \E c2 \in IF c1 # NotCalled
                 THEN SecondReads(vault, keyringLoaded, CF_TOKEN_KEY, c1, LoginReads)
                 ELSE {NotCalled} :
       \E resolved \in {resolve_cloudflare_token(cloudflare_api_token, vault,
                                                 keyringLoaded, c1, c2)} :
       \E net1 \in IF client.err = <<>> /\ resolved.err = <<>>
                   THEN CertAnswers ELSE {NotSent} :
       \E cert \in {IF client.err = <<>> /\ resolved.err = <<>>
                    THEN _create_cloudflare_cert(client, Domains, resolved.token,
                                                 Num(<<"3", "0">>), Str(<<"r", "s", "a">>),
                                                 net1, FALSE).err = <<>>
                    ELSE FALSE} :
       \E net2 \in IF cert THEN HostAnswers ELSE {NotSent} :
       \E debug \in IF ErrorStatus(net1) \/ ErrorStatus(net2) THEN BOOLEAN ELSE {FALSE} :
       \E r \in {add_proxy_with_cert(
                     Domains, Str(<<"h">>), Num(<<"8", "0">>), cloudflare_api_token,
                     Str(<<"h", "t", "t", "p">>), Num(<<"3", "0">>), Str(<<"r", "s", "a">>),
                     TRUE, TRUE, TRUE, TRUE, base_url, token, NoEnviron,
                     vault, keyringLoaded, o1, o2, c1, c2, file1, file2,
                     net1, net2, debug)} :
          /\ op' = "add_proxy_with_cert"
          /\ inp' = [o1 |-> o1, o2 |-> o2, c1 |-> c1, c2 |-> c2,
                     base_url |-> base_url, token |-> token, debug |-> debug,
                     cloudflare_api_token |-> cloudflare_api_token,
                     net1 |-> net1, net2 |-> net2]
          /\ out' = r
          /\ UNCHANGED <<store, files>>

NextProxy == AddProxyWithCert

SpecProxy == InitProxy /\ [][NextProxy]_vars

---------------------------------------------------------------------------
(* Claims about add-proxy-with-cert (checked under SpecProxy) *)

\* the answer is a response with a status below 400
Succeeded(net) == ~net.fail /\ net.status_code < 400
\* the id of the certificate in the answer to the certificate request, None
\* when the body is no mapping or has none
CertificateIdIn(net) ==
    IF net.json # <<>> /\ net.json[1][1] = "dict"
    THEN DictGet(net.json[1][2], "id") ELSE None

\* C14: the command sends at most two requests, the certificate request
\* first and the proxy-host request second; the proxy-host request is sent
\* only after the certificate request was answered with a success whose body
\* has a non-empty id, and carries that id as an integer; when the
\* certificate step fails nothing more is sent; when the proxy-host request
\* fails after the certificate was created, nothing is sent after it (no
\* request undoes the certificate) and the command exits with code 1.
C14_OrderedNotTransactional ==
    op = "add_proxy_with_cert" =>
        /\ Len(out.sends) <= 2
        /\ \A i \in 1..Len(out.sends) : out.sends[i].method = "POST"
        /\ Len(out.sends) >= 1 => out.sends[1].url[3] = "/nginx/certificates"
        /\ Len(out.sends) = 2 =>
                /\ out.sends[2].url[3] = "/nginx/proxy-hosts"
                /\ Succeeded(inp.net1)
                /\ Truthy(CertificateIdIn(inp.net1))
                /\ DictGet(out.sends[2].json[2], "certificate_id")
                      = IntOf(CertificateIdIn(inp.net1)).val
        /\ (Len(out.sends) >= 1
              /\ (~Succeeded(inp.net1) \/ ~Truthy(CertificateIdIn(inp.net1)))) =>
                /\ Len(out.sends) = 1
                /\ out.code = 1
        /\ (Len(out.sends) = 2 /\ ~Succeeded(inp.net2)) => out.code = 1

\* C14 witness: the certificate was created with id 7, the proxy-host request
\* carried it and was answered 500; the command ended with exit code 1 after
\* these two requests.
C14_Witness ==
    /\ op = "add_proxy_with_cert"
    /\ Len(out.sends) = 2
    /\ CertificateIdIn(inp.net1) = Str(<<"7">>)
    /\ DictGet(out.sends[2].json[2], "certificate_id") = Num(<<"7">>)
    /\ ~inp.net2.fail
    /\ inp.net2.status_code = 500
    /\ out.code = 1

---------------------------------------------------------------------------
(* Claims about the text of an ApiError (checked under SpecClient) *)

RECURSIVE StrLeaves(_)
\* the strings a value, or a part of a message, is written out with
StrLeaves(v) ==
    IF v[1] = "str" THEN {v[2]}
    ELSE IF v[1] \in {"strof", "preview"} THEN StrLeaves(v[2])
    ELSE IF v[1] = "dict" THEN UNION {StrLeaves(v[2][i][2]) : i \in 1..Len(v[2])}
    ELSE IF v[1] \in {"list", "tuple"} THEN UNION {StrLeaves(v[2][i]) : i \in 1..Len(v[2])}
    ELSE {}

RECURSIVE SensitiveFields(_)
\* the strings held by the fields of a body whose key matches the denylist
SensitiveFields(v) ==
    IF v[1] = "dict"
    THEN UNION {IF _is_sensitive_key(v[2][i][1]) THEN StrLeaves(v[2][i][2])
                ELSE SensitiveFields(v[2][i][2]) : i \in 1..Len(v[2])}
    ELSE IF v[1] \in {"list", "tuple"}
    THEN UNION {SensitiveFields(v[2][i]) : i \in 1..Len(v[2])}
    ELSE {}

\* the part of a message shows the string s as it is
Shows(part, s) == \E leaf \in StrLeaves(part) : IsSubstring(s, leaf)
\* the body of the request the ApiError is about
RequestBody == out.sends[1].json
\* the ApiError shows the string s somewhere in its text
ApiErrorShows(s) == \E i \in 1..Len(out.err) : Shows(out.err[i], s)

\* C15 as stated: the text of an ApiError (message line, request-id line and,
\* in debug mode, the response and request bodies) never contains the
\* unmasked value of a field of the response or request body whose key
\* matches the denylist, whatever the shape of the response body and in both
\* debug modes.
C15_AsStated ==
    ApiErrorRaised =>
        \A s \in SensitiveFields(Body) \cup SensitiveFields(RequestBody) :
            s # <<>> => ~ApiErrorShows(s)

\* C15 witness: without debug mode, the response body has an error object
\* with a token and no message, and the message line of the ApiError is the
\* stringified error object, token included.
C15_Witness ==
    /\ ApiErrorRaised
    /\ ~inp.debug
    /\ BodyIsMapping
    /\ ErrorIsMapping
    /\ NestedMessageOf = None
    /\ DictGet(ErrorObject[2], "token") = EchoedValue
    /\ MessageOfApiError = StrOf(ErrorObject)
    /\ Shows(MessageOfApiError, EchoedValue[2])

---------------------------------------------------------------------------
(* Claims about resolution with a failing vault and about the legacy files *)
(* (checked under SpecResolve)                                              *)

\* the lookup of the stored login record failed in the last resolve call:
\* the vault integration is unavailable, or a read of the vault raised
VaultFailed == get_login_info(vault, keyringLoaded, inp.o1, inp.o2).err # <<>>
\* a vault that holds nothing and answers every read
EmptyVault == [sv \in Services |-> EmptyNamespace]
\* the sources of each field other than the vault
BaseUrlOutsideVault ==
    <<inp.base_url, inp.environ.NPM_BASE_URL, DictGet(FileRecord, "base_url")>>
TokenOutsideVault ==
    <<inp.token, inp.environ.NPM_TOKEN, DictGet(FileRecord, "token")>>

---------------------------------------------------------------------------
(* Claims about the round trip of the secret store (checked under Spec) *)

\* the values set: the empty string, a token, a login record
SetValues ==
    {<<>>, <<<<"raw", <<"c", "B">>>>>>,
     json_dumps(LoginPayload(Str(<<"u", "A">>), Str(<<"t", "A">>), None, Identity))}
\* get(key) of the vault v, the backend answering
GetAfter(v, k) == get_secret(v, keyringLoaded, k, OK, OK)
\* the text cf-token-set stores for its --token
TokenStored == TextOf(PyOr(inp.token, Str(<<>>)))

\* C17: for every key and every non-empty value, once set(key, value) has
\* succeeded get(key) returns the value, whatever the legacy namespace holds,
\* reading the current namespace alone; once set(key, "") has succeeded
\* get(key) returns what the legacy namespace holds for the key (absent when
\* it holds nothing), not the empty value stored. So after cf-token-set has
\* saved a token the token is read back and resolved, and after it has saved
\* the empty string (no token text given) the legacy token is read back and
\* resolved, and no token is resolved when the legacy namespace has none.
C17_SetGetRoundTrip ==
    /\ \A k \in SecretNames, value \in SetValues :
        \A s \in {set_secret(vault, keyringLoaded, k, value, OK)} :
            s.err = <<>> =>
                /\ s.vault[SERVICE_NAME][k] = <<value>>
                /\ GetAfter(s.vault, k).err = <<>>
                /\ value # <<>> =>
                        /\ GetAfter(s.vault, k).val = <<value>>
                        /\ GetAfter(s.vault, k).calls = <<<<"get", SERVICE_NAME>>>>
                /\ value = <<>> =>
                        GetAfter(s.vault, k).val = vault[LEGACY_SERVICE_NAME][k]
    /\ (op = "cf_token_set" /\ out.err = <<>>) =>
        /\ vault[SERVICE_NAME][CF_TOKEN_KEY] = <<TokenStored>>
        /\ Truthy(inp.token) =>
                /\ TokenStored # <<>>
                /\ GetAfter(vault, CF_TOKEN_KEY).val = <<TokenStored>>
                /\ resolve_cloudflare_token(None, vault, keyringLoaded, OK, OK).token = inp.token
        /\ ~Truthy(inp.token) =>
                /\ TokenStored = <<>>
                /\ GetAfter(vault, CF_TOKEN_KEY).val = vault[LEGACY_SERVICE_NAME][CF_TOKEN_KEY]
                /\ resolve_cloudflare_token(None, vault, keyringLoaded, OK, OK) =
                      IF TruthyText(vault[LEGACY_SERVICE_NAME][CF_TOKEN_KEY])
                      THEN [calls |-> <<<<"get", SERVICE_NAME>>, <<"get", LEGACY_SERVICE_NAME>>>>,
                            err |-> <<>>,
                            token |-> StrOfText(vault[LEGACY_SERVICE_NAME][CF_TOKEN_KEY][1])]
                      ELSE [calls |-> <<<<"get", SERVICE_NAME>>, <<"get", LEGACY_SERVICE_NAME>>>>,
                            err |-> MissingCloudflareToken, token |-> None]

\* C17 witness: cf-token-set, given no token text, has stored the empty
\* string in the current namespace, and get returns the token that the legacy
\* namespace holds.
C17_Witness ==
    /\ op = "cf_token_set"
    /\ out.err = <<>>
    /\ inp.token = None
    /\ vault[SERVICE_NAME][CF_TOKEN_KEY] = <<<<>>>>
    /\ vault[LEGACY_SERVICE_NAME][CF_TOKEN_KEY] = CfTokenText(<<"c", "L">>)
    /\ GetAfter(vault, CF_TOKEN_KEY).val = CfTokenText(<<"c", "L">>)

\* what each legacy file yields on its own, and the data of the first one, in
\* the order of the paths, that yields any
FirstFile == _load_json_file(file1)
SecondFile == _load_json_file(file2)
LegacyData == IF FirstFile # <<>> THEN FirstFile ELSE SecondFile
BaseUrlWithLegacyData ==
    <<inp.base_url, inp.environ.NPM_BASE_URL,
      DictGet(VaultRecord, "base_url"), DictGet(LegacyData, "base_url")>>
TokenWithLegacyData ==
    <<inp.token, inp.environ.NPM_TOKEN,
      DictGet(VaultRecord, "token"), DictGet(LegacyData, "token")>>

=============================================================================
